---- MODULE Spec2Model ----
(***************************************************************************)
(* Verification model of the UK tax calculator repository.                 *)
(*                                                                         *)
(* Units.  Money is an integer number of pence unless a comment says       *)
(* otherwise (the Decimal code of uk_tax_calculator.py quantizes to 0.01). *)
(* The personal-allowance taper halves a pence amount, so the allowance,   *)
(* the taxable income and the per-band taxed amounts of PAYECalculator are *)
(* kept in half-pence (suffix 2 on the local names).  Rates are in percent *)
(* or, where the source has three decimals, in per-mille.                  *)
(*                                                                         *)
(* The repository is a set of independent programs that never share an     *)
(* object: the Decimal calculators (uk_tax_calculator.py), the rule-based  *)
(* TaxOptimizer (tax_optimizer.py), the two TaxOptimizationEngine          *)
(* versions, and the UKTaxComputations transaction store.  The variable    *)
(* prog records which of them a behaviour is an execution of.              *)
(***************************************************************************)
EXTENDS Integers, Sequences, FiniteSets, TLC

VARIABLES
    prog,   \* the program this behaviour executes
    call,   \* the last call made: [fn |-> ..., <arguments>]
    ret,    \* what that call did: [status |-> "ok" | <exception>, <result fields>]
    rules,  \* TaxOptimizer.rules, the TaxRules instance the optimizer was built with
    transactions,                \* UKTaxComputations.transactions
    user_business_transactions,  \* UKTaxComputations.user_business_transactions
    computations,                \* UKTaxComputations.computations
    optimizer,  \* app.py: the attributes of the one TaxOptimizationEngine all requests share
    requests,   \* app.py: per request thread, the optimizer call it is in and how far it is
    db          \* backend/models: the rows of the transactions, accruals and
                \* reconciliation_records tables

vars == <<prog, call, ret, rules, transactions, user_business_transactions, computations,
          optimizer, requests, db>>
store == <<transactions, user_business_transactions, computations>>
app == <<optimizer, requests>>

\* ---------------------------------------------------------------- bounds
\* Half-width, in pence, of the window of inputs drawn around each threshold.
Window == 2
\* Largest number of data rows in one imported CSV file.
MaxRows == 2
\* Largest number of transactions UKTaxComputations holds.
MaxTx == 2

\* ---------------------------------------------------------------- helpers
Max(a, b) == IF a >= b THEN a ELSE b
Min(a, b) == IF a <= b THEN a ELSE b

\* Decimal.quantize(Decimal('0.01'), ROUND_HALF_UP) of the non-negative
\* quotient n / d, the result in the unit of n / d.
Quantize(n, d) == (2 * n + d) \div (2 * d)

Near(x) == (x - Window)..(x + Window)

\* a/b <= c/d for a, c >= 0 and b, d > 0, compared by continued fractions so
\* that no product is formed.
RECURSIVE FracLeq(_, _, _, _)
FracLeq(a, b, c, d) ==
    LET qa == a \div b
        qc == c \div d
        ra == a % b
        rc == c % d
    IN  IF qa # qc THEN qa < qc
        ELSE IF ra = 0 THEN TRUE
        ELSE IF rc = 0 THEN FALSE
        ELSE FracLeq(d, rc, b, ra)

\* ------------------------------------------------- PAYECalculator constants
\* Amounts in pence, rates in percent.
PAYE_PERSONAL_ALLOWANCE == 1257000
PAYE_BASIC_RATE_THRESHOLD == 5027000
PAYE_HIGHER_RATE_THRESHOLD == 15000000
PAYE_TAPER_THRESHOLD == 10000000
PAYE_BASIC_RATE == 20
PAYE_HIGHER_RATE == 40
PAYE_ADDITIONAL_RATE == 45

\* PAYECalculator.validate_inputs: the exception message, "" when it returns.
PAYE_validate_inputs(gross_income, deductions) ==
    IF gross_income < 0 THEN "Gross income cannot be negative"
    ELSE IF deductions < 0 THEN "Deductions cannot be negative"
    ELSE IF deductions > gross_income THEN "Deductions cannot exceed gross income"
    ELSE ""

\* The taper of PAYECalculator.calculate: the allowance in half-pence.
PAYE_personal_allowance2(adjusted_income) ==
    IF adjusted_income > PAYE_TAPER_THRESHOLD
    THEN Max(0, 2 * PAYE_PERSONAL_ALLOWANCE - (adjusted_income - PAYE_TAPER_THRESHOLD))
    ELSE 2 * PAYE_PERSONAL_ALLOWANCE

\* A band's tax: (taxed amount * rate).quantize(0.01, ROUND_HALF_UP), in pence,
\* of an amount in half-pence and a rate in percent.
PAYE_band_tax(taxable2, rate) == Quantize(taxable2 * rate, 200)

\* PAYE_taxable_income2 forgetting to subtract the allowance
PAYE_taxable_income2_no_allowance(adjusted_income, personal_allowance2) ==
    Max(0, 2 * adjusted_income)

\* taxable_income = max(0, adjusted_income - personal_allowance), in half-pence.
PAYE_taxable_income2(adjusted_income, personal_allowance2) ==
    Max(0, 2 * adjusted_income - personal_allowance2)

PAYE_basic_band_limit == PAYE_BASIC_RATE_THRESHOLD - PAYE_PERSONAL_ALLOWANCE
PAYE_higher_band_limit == PAYE_HIGHER_RATE_THRESHOLD - PAYE_PERSONAL_ALLOWANCE

\* The amounts taxed in each band (the locals basic_taxable, higher_taxable and
\* additional_taxable; 0 where the code does not reach the assignment), in
\* half-pence.
\* PAYE_basic_taxable2 with the bands exclusive (elif) instead of cumulative
PAYE_basic_taxable2_elif(taxable_income2) ==
    IF taxable_income2 > 0 /\ taxable_income2 <= 2 * PAYE_basic_band_limit
    THEN taxable_income2
    ELSE 0

PAYE_basic_taxable2(taxable_income2) ==
    IF taxable_income2 > 0
    THEN Min(taxable_income2, 2 * PAYE_basic_band_limit)
    ELSE 0

\* PAYE_higher_taxable2 capping the band at its upper limit instead of its width
PAYE_higher_taxable2_full_width(taxable_income2) ==
    IF taxable_income2 > 0 /\ taxable_income2 > 2 * PAYE_basic_band_limit
    THEN Min(taxable_income2 - 2 * PAYE_basic_band_limit, 2 * PAYE_higher_band_limit)
    ELSE 0

PAYE_higher_taxable2(taxable_income2) ==
    IF taxable_income2 > 0 /\ taxable_income2 > 2 * PAYE_basic_band_limit
    THEN Min(taxable_income2 - 2 * PAYE_basic_band_limit,
             2 * (PAYE_higher_band_limit - PAYE_basic_band_limit))
    ELSE 0

PAYE_additional_taxable2(taxable_income2) ==
    IF taxable_income2 > 0 /\ taxable_income2 > 2 * PAYE_higher_band_limit
    THEN taxable_income2 - 2 * PAYE_higher_band_limit
    ELSE 0

\* PAYECalculator.calculate on valid inputs.
PAYE_calculate(gross_income, deductions) ==
    LET adjusted_income == gross_income - deductions
        personal_allowance2 == PAYE_personal_allowance2(adjusted_income)
        taxable_income2 == PAYE_taxable_income2(adjusted_income, personal_allowance2)
        basic_taxable2 == PAYE_basic_taxable2(taxable_income2)
        higher_taxable2 == PAYE_higher_taxable2(taxable_income2)
        additional_taxable2 == PAYE_additional_taxable2(taxable_income2)
        basic_rate == IF basic_taxable2 > 0
                      THEN PAYE_band_tax(basic_taxable2, PAYE_BASIC_RATE) ELSE 0
        higher_rate == IF higher_taxable2 > 0
                       THEN PAYE_band_tax(higher_taxable2, PAYE_HIGHER_RATE) ELSE 0
        additional_rate == PAYE_band_tax(additional_taxable2, PAYE_ADDITIONAL_RATE)
        total_tax == basic_rate + higher_rate + additional_rate
    IN  [status |-> "ok",
         gross_income |-> gross_income,
         deductions |-> deductions,
         personal_allowance2 |-> personal_allowance2,
         taxable_income2 |-> taxable_income2,
         basic_taxable2 |-> basic_taxable2,
         higher_taxable2 |-> higher_taxable2,
         additional_taxable2 |-> additional_taxable2,
         tax_breakdown |-> [basic_rate |-> basic_rate,
                            higher_rate |-> higher_rate,
                            additional_rate |-> additional_rate],
         total_tax |-> total_tax,
         net_income |-> gross_income - total_tax]

\* Inputs of PAYECalculator.calculate, in pence: windows around 0 (negative
\* values included), the allowance, one pound above it, the band limits, the
\* taper threshold, the income where the allowance reaches 0 and the income
\* where the additional band starts.
GrossIncomes ==
    Near(0) \cup Near(PAYE_PERSONAL_ALLOWANCE) \cup Near(PAYE_PERSONAL_ALLOWANCE + 100)
    \cup Near(PAYE_BASIC_RATE_THRESHOLD) \cup Near(PAYE_TAPER_THRESHOLD)
    \cup Near(PAYE_TAPER_THRESHOLD + 2 * PAYE_PERSONAL_ALLOWANCE)
    \cup Near(PAYE_HIGHER_RATE_THRESHOLD - PAYE_PERSONAL_ALLOWANCE)
    \cup Near(PAYE_HIGHER_RATE_THRESHOLD)
    \cup {30000 * 100, 110000 * 100}
Deductions == (-1)..Window \cup {1000 * 100}

PAYECalculate ==
    /\ prog = "calculators"
    /\ \E gross_income \in GrossIncomes, deductions \in Deductions :
         /\ call' = [fn |-> "PAYECalculator.calculate",
                     gross_income |-> gross_income, deductions |-> deductions]
         /\ ret' = IF PAYE_validate_inputs(gross_income, deductions) # ""
                   THEN [status |-> "ValidationError",
                         message |-> PAYE_validate_inputs(gross_income, deductions)]
                   ELSE PAYE_calculate(gross_income, deductions)
    /\ UNCHANGED <<prog, app, db, rules, store>>

\* floor(n * 10^k / d) and the remainder, by long division: <<quotient, rest>>.
RECURSIVE DecDiv(_, _, _)
DecDiv(n, d, k) ==
    IF k = 0 THEN <<n \div d, n % d>>
    ELSE LET p == DecDiv(n, d, k - 1)
         IN  <<p[1] * 10 + (p[2] * 10) \div d, (p[2] * 10) % d>>

\* ----------------------------------------- CorporateTaxCalculator constants
SMALL_PROFITS_RATE == 19
MAIN_RATE == 25
SMALL_PROFITS_THRESHOLD == 5000000
MAIN_RATE_THRESHOLD == 25000000
RD_SME_CREDIT_RATE == 86
RD_LARGE_CREDIT_RATE == 13
\* standard_fraction = Decimal('0.015'), in per-mille
standard_fraction == 15

\* CorporateTaxCalculator.validate_inputs: the exception message, "" when it returns.
Corp_validate_inputs(gross_profit, allowable_expenses, rd_expenditure, losses_brought_forward) ==
    IF gross_profit < 0 THEN "Gross profit cannot be negative"
    ELSE IF allowable_expenses < 0 THEN "Allowable expenses cannot be negative"
    ELSE IF rd_expenditure < 0 THEN "R&D expenditure cannot be negative"
    ELSE IF losses_brought_forward < 0 THEN "Losses brought forward cannot be negative"
    ELSE ""

\* calculate_marginal_relief taking the relief on the excess over the lower
\* limit instead of the shortfall below the upper limit
calculate_marginal_relief_lower_base(taxable_profit) ==
    IF taxable_profit <= SMALL_PROFITS_THRESHOLD THEN 0
    ELSE IF taxable_profit >= MAIN_RATE_THRESHOLD THEN 0
    ELSE Quantize((taxable_profit - SMALL_PROFITS_THRESHOLD) * standard_fraction, 1000)

\* CorporateTaxCalculator.calculate_marginal_relief, in pence.
calculate_marginal_relief(taxable_profit) ==
    IF taxable_profit <= SMALL_PROFITS_THRESHOLD THEN 0
    ELSE IF taxable_profit >= MAIN_RATE_THRESHOLD THEN 0
    ELSE Quantize((MAIN_RATE_THRESHOLD - taxable_profit) * standard_fraction
                      * (taxable_profit \div taxable_profit),
                  1000)

\* Corp_corporation_tax forgetting to subtract the marginal relief
Corp_corporation_tax_no_relief(taxable_profit) ==
    IF taxable_profit <= SMALL_PROFITS_THRESHOLD
    THEN Quantize(taxable_profit * SMALL_PROFITS_RATE, 100)
    ELSE Quantize(taxable_profit * MAIN_RATE, 100)

\* Corp_corporation_tax with only two regimes: the small rate below the upper limit
Corp_corporation_tax_two_regimes(taxable_profit) ==
    IF taxable_profit >= MAIN_RATE_THRESHOLD
    THEN Quantize(taxable_profit * MAIN_RATE, 100)
    ELSE Quantize(taxable_profit * SMALL_PROFITS_RATE, 100)

\* The tax of CorporateTaxCalculator.calculate on a taxable profit, in pence.
Corp_corporation_tax(taxable_profit) ==
    IF taxable_profit <= SMALL_PROFITS_THRESHOLD
    THEN Quantize(taxable_profit * SMALL_PROFITS_RATE, 100)
    ELSE IF taxable_profit >= MAIN_RATE_THRESHOLD
    THEN Quantize(taxable_profit * MAIN_RATE, 100)
    ELSE Quantize(taxable_profit * MAIN_RATE, 100) - calculate_marginal_relief(taxable_profit)

\* The taxable profit of CorporateTaxCalculator.calculate, in pence.
Corp_taxable_profit(gross_profit, allowable_expenses, rd_expenditure, losses_brought_forward, is_sme) ==
    LET adjusted_profit == gross_profit - allowable_expenses
        rd_tax_credit ==
            IF rd_expenditure > 0
            THEN IF is_sme THEN Quantize(rd_expenditure * RD_SME_CREDIT_RATE, 100)
                 ELSE Quantize(rd_expenditure * RD_LARGE_CREDIT_RATE, 100)
            ELSE 0
        profit_after_rd == adjusted_profit - rd_tax_credit
    IN  Max(0, profit_after_rd - losses_brought_forward)

\* calculate computing the effective rate on a zero taxable profit as well
effective_rate_computed_at_zero(taxable_profit) ==
    taxable_profit >= 0
\* calculate computes the effective rate only on a positive taxable profit.
effective_rate_computed(taxable_profit) ==
    taxable_profit > 0

\* The divisors calculate divides by on a taxable profit: the profit itself,
\* in calculate_marginal_relief past its two early returns and in the
\* effective rate.
Corp_divisors(taxable_profit) ==
    (IF taxable_profit <= SMALL_PROFITS_THRESHOLD \/ taxable_profit >= MAIN_RATE_THRESHOLD
     THEN {} ELSE {taxable_profit})
    \cup (IF effective_rate_computed(taxable_profit) THEN {taxable_profit} ELSE {})

\* CorporateTaxCalculator.calculate on valid inputs.  effective_rate is in
\* hundredths of a percent.  A Decimal division by zero raises an
\* ArithmeticError (DivisionByZero, or InvalidOperation for 0 / 0).
Corp_calculate(gross_profit, allowable_expenses, rd_expenditure, losses_brought_forward, is_sme) ==
    LET taxable_profit == Corp_taxable_profit(gross_profit, allowable_expenses,
                              rd_expenditure, losses_brought_forward, is_sme)
        corporation_tax == Corp_corporation_tax(taxable_profit)
        applicable_rate == IF taxable_profit <= SMALL_PROFITS_THRESHOLD
                           THEN SMALL_PROFITS_RATE ELSE MAIN_RATE
        effective_rate ==
            IF effective_rate_computed(taxable_profit)
            THEN LET p == DecDiv(corporation_tax, taxable_profit, 4)
                 IN  p[1] + (IF 2 * p[2] >= taxable_profit THEN 1 ELSE 0)
            ELSE 0
    IN  IF 0 \in Corp_divisors(taxable_profit) THEN [status |-> "ArithmeticError"]
        ELSE
        [status |-> "ok",
         gross_profit |-> gross_profit,
         allowable_expenses |-> allowable_expenses,
         adjusted_profit |-> gross_profit - allowable_expenses,
         rd_expenditure |-> rd_expenditure,
         losses_brought_forward |-> losses_brought_forward,
         taxable_profit |-> taxable_profit,
         applicable_rate |-> applicable_rate,
         marginal_relief |-> calculate_marginal_relief(taxable_profit),
         corporation_tax |-> corporation_tax,
         effective_rate |-> effective_rate,
         net_profit |-> gross_profit - allowable_expenses - corporation_tax]

\* Profits in whole pounds: a window of pounds above 0 and around each limit,
\* and two profits inside the marginal band.
WholePoundProfits ==
    {k * 100 : k \in 1..(Window + 1)}
    \cup {SMALL_PROFITS_THRESHOLD + k * 100 : k \in (-Window)..Window}
    \cup {MAIN_RATE_THRESHOLD + k * 100 : k \in (-Window)..Window}
    \cup {100000 * 100, 150001 * 100}
\* Inputs of CorporateTaxCalculator.calculate, in pence.
GrossProfits ==
    Near(0) \cup 0..(2 * Window + 2) \cup Near(SMALL_PROFITS_THRESHOLD)
    \cup Near(MAIN_RATE_THRESHOLD) \cup WholePoundProfits
Expenses == {-1, 0, 1}
RdExpenditures == {-1, 0, 100}
Losses == {-1, 0, 100}

CorporateCalculate ==
    /\ prog = "calculators"
    /\ \E gross_profit \in GrossProfits, allowable_expenses \in Expenses,
          rd_expenditure \in RdExpenditures, losses_brought_forward \in Losses,
          is_sme \in BOOLEAN :
         /\ call' = [fn |-> "CorporateTaxCalculator.calculate",
                     gross_profit |-> gross_profit,
                     allowable_expenses |-> allowable_expenses,
                     rd_expenditure |-> rd_expenditure,
                     losses_brought_forward |-> losses_brought_forward,
                     is_sme |-> is_sme]
         /\ ret' = IF Corp_validate_inputs(gross_profit, allowable_expenses,
                                           rd_expenditure, losses_brought_forward) # ""
                   THEN [status |-> "ValidationError",
                         message |-> Corp_validate_inputs(gross_profit, allowable_expenses,
                                         rd_expenditure, losses_brought_forward)]
                   ELSE Corp_calculate(gross_profit, allowable_expenses, rd_expenditure,
                                       losses_brought_forward, is_sme)
    /\ UNCHANGED <<prog, app, db, rules, store>>

\* ------------------------------------------------------------- TaxOptimizer
\* TaxRules, the fields the modelled methods read, in pence.
TaxRules ==
    [personal_allowance |-> 12570 * 100,
     personal_allowance_taper_threshold |-> 100000 * 100,
     basic_rate_limit |-> 50270 * 100,
     higher_rate_limit |-> 125140 * 100,
     basic_rate |-> 20,
     corporation_small_threshold |-> 50000 * 100,
     corporation_main_threshold |-> 250000 * 100,
     trading_allowance |-> 1000 * 100,
     pension_annual_allowance |-> 60000 * 100,
     vat_threshold |-> 90000 * 100]

\* calculate_personal_allowance without the floor at 0
calculate_personal_allowance_no_floor(r, adjusted_income) ==
    IF adjusted_income <= r.personal_allowance_taper_threshold
    THEN 2 * r.personal_allowance
    ELSE 2 * r.personal_allowance
         - (adjusted_income - r.personal_allowance_taper_threshold)

\* TaxOptimizer.calculate_personal_allowance: the allowance in half-pence.
calculate_personal_allowance(r, adjusted_income) ==
    IF adjusted_income <= r.personal_allowance_taper_threshold
    THEN 2 * r.personal_allowance
    ELSE LET excess == adjusted_income - r.personal_allowance_taper_threshold
             reduction2 == excess
         IN  Max(0, 2 * r.personal_allowance - reduction2)

AdjustedIncomes ==
    Near(0) \cup Near(100000 * 100) \cup Near(125140 * 100)
    \cup {50000 * 100, 110000 * 100, 150000 * 100}

CalculatePersonalAllowance ==
    /\ prog = "tax_optimizer"
    /\ \E adjusted_income \in AdjustedIncomes :
         /\ call' = [fn |-> "TaxOptimizer.calculate_personal_allowance",
                     adjusted_income |-> adjusted_income]
         /\ ret' = [status |-> "ok",
                    allowance2 |-> calculate_personal_allowance(rules, adjusted_income)]
    /\ UNCHANGED <<prog, app, db, rules, store>>

\* TaxOptimizer.optimize_sole_trader.  The method has no validation step: it
\* computes from whatever it is given.  Savings are in 1/100 of a penny
\* (0.20, 0.40 and 0.85 of a pence amount are integers there).
optimize_sole_trader(r, income, expenses) ==
    LET profit == income - expenses
        excess == profit - r.basic_rate_limit
        max_pension == Min(excess, r.pension_annual_allowance)
    IN  [status |-> "ok",
         entity_type |-> "Sole Trader",
         current_profit |-> profit,
         suggestions |->
             (IF expenses < r.trading_allowance
              THEN <<[title |-> "Use Trading Allowance",
                      potential_saving100 |-> (r.trading_allowance - expenses) * 20]>>
              ELSE <<>>)
             \o (IF profit > r.basic_rate_limit
                 THEN <<[title |-> "Increase Pension Contributions",
                         potential_saving100 |-> max_pension * 40]>>
                 ELSE <<>>)
             \o (IF income * 100 > r.vat_threshold * 85
                 THEN <<[title |-> "VAT Registration Planning",
                         potential_saving100 |-> 0]>>
                 ELSE <<>>)
             \o (IF profit > 50000 * 100
                 THEN <<[title |-> "Consider Incorporation",
                         potential_saving100 |-> 0]>>
                 ELSE <<>>)]

SoleTraderIncomes == {-100, 0, 800 * 100, 60000 * 100, 80000 * 100}
SoleTraderExpenses == {-100, 0, 1000 * 100, 5000 * 100}

OptimizeSoleTrader ==
    /\ prog = "tax_optimizer"
    /\ \E income \in SoleTraderIncomes, expenses \in SoleTraderExpenses :
         /\ call' = [fn |-> "TaxOptimizer.optimize_sole_trader",
                     income |-> income, expenses |-> expenses]
         /\ ret' = optimize_sole_trader(rules, income, expenses)
    /\ UNCHANGED <<prog, app, db, rules, store>>

\* -------------------------------------------------------- UKTaxComputations
\* Amounts are whole pounds here (the source holds floats and never rounds);
\* corporation tax and VAT are in 1/200 of a pound, the unit in which
\* 0.19, 0.25, 0.015 and 0.20 of a pound are integers.
\* The ids are strings the caller chooses; nothing checks them, the empty
\* string included.
Users == {"user1", ""}
Businesses == {"biz1", "biz2"}
Keys == Users \X Businesses

\* One data row of a CSV file: its amount cell, parseable by float() or not.
AmountCells ==
    {[ok |-> TRUE, amount |-> a] : a \in {50000, 250000, -1}}
    \cup {[ok |-> FALSE, amount |-> 0]}
CsvFiles == UNION {[1..n -> AmountCells] : n \in 0..MaxRows}

\* UKTaxComputations.validate_csv_data: the 'valid' flag.
validate_csv_data(csv_content) ==
    /\ Len(csv_content) >= 1
    /\ \A i \in 1..Len(csv_content) : csv_content[i].ok

RECURSIVE SumIf(_, _)
\* sum(tx['amount'] for tx in transactions if tx['amount'] > 0) for sign = 1,
\* sum(... if tx['amount'] < 0) for sign = -1.
SumIf(txs, sign) ==
    IF txs = <<>> THEN 0
    ELSE (IF Head(txs).amount * sign > 0 THEN Head(txs).amount ELSE 0)
         + SumIf(Tail(txs), sign)

\* ComputeCorporationTax applying the small profits rate to a loss as well
ComputeCorporationTax_on_loss(taxable_profit) ==
    IF taxable_profit <= 50000 THEN taxable_profit * 38
    ELSE IF taxable_profit >= 250000 THEN taxable_profit * 50
    ELSE taxable_profit * 50 - (250000 - taxable_profit) * 3

\* The corporation tax of compute_tax_from_transactions, in 1/200 pound.
ComputeCorporationTax(taxable_profit) ==
    IF taxable_profit > 0
    THEN IF taxable_profit <= 50000 THEN taxable_profit * 38
         ELSE IF taxable_profit >= 250000 THEN taxable_profit * 50
         ELSE taxable_profit * 50 - (250000 - taxable_profit) * 3
    ELSE 0

\* The tax_rate of compute_tax_from_transactions, in percent.
ComputeTaxRate(taxable_profit) ==
    IF taxable_profit > 0
    THEN IF taxable_profit <= 50000 THEN 19 ELSE 25
    ELSE 0

\* The readings datetime.now() can give: two suffice to tell two calls apart.

\* The result of compute_tax_from_transactions on a non-empty list, computed
\* when the clock reads now.
compute_tax(user_id, business_id, txs, now) ==
    LET total_income == SumIf(txs, 1)
        sum_negative == SumIf(txs, -1)
        total_expenses == IF sum_negative < 0 THEN -sum_negative ELSE sum_negative
        net_profit == total_income - total_expenses
        taxable_profit == net_profit
    IN  [status |-> "ok",
         success |-> TRUE,
         user_id |-> user_id,
         business_id |-> business_id,
         transaction_count |-> Len(txs),
         total_income |-> total_income,
         total_expenses |-> total_expenses,
         net_profit |-> net_profit,
         taxable_profit |-> taxable_profit,
         corporation_tax |-> ComputeCorporationTax(taxable_profit),
         tax_rate |-> ComputeTaxRate(taxable_profit),
         vat_on_sales |-> total_income * 40,
         vat_on_purchases |-> total_expenses * 40,
         vat_due |-> total_income * 40 - total_expenses * 40,
         income_transactions |-> SelectSeq(txs, LAMBDA tx : tx.amount > 0),
         expense_transactions |-> SelectSeq(txs, LAMBDA tx : tx.amount < 0),
         computation_date |-> now]

ImportTransactionsFromCsv ==
    /\ prog = "uk_tax_computations"
    /\ \E csv_content \in CsvFiles, user_id \in Users, business_id \in Businesses :
         /\ Len(transactions) + Len(csv_content) <= MaxTx
         /\ call' = [fn |-> "UKTaxComputations.import_transactions_from_csv",
                     csv_content |-> csv_content,
                     user_id |-> user_id, business_id |-> business_id]
         /\ IF ~validate_csv_data(csv_content)
            THEN /\ ret' = [status |-> "ok", success |-> FALSE,
                            message |-> "CSV validation failed"]
                 /\ UNCHANGED store
            ELSE LET imported ==
                         [i \in 1..Len(csv_content) |->
                             [user_id |-> user_id, business_id |-> business_id,
                              amount |-> csv_content[i].amount]]
                     key == <<user_id, business_id>>
                 IN  /\ transactions' = transactions \o imported
                     /\ user_business_transactions' =
                            [user_business_transactions EXCEPT ![key] = @ \o imported]
                     /\ ret' = [status |-> "ok", success |-> TRUE,
                                imported_count |-> Len(imported),
                                transactions |-> imported]
                     /\ UNCHANGED computations
    /\ UNCHANGED <<prog, app, db, rules>>

ComputeTaxFromTransactions ==
    /\ prog = "uk_tax_computations"
    /\ \E user_id \in Users, business_id \in Businesses :
         LET key == <<user_id, business_id>>
             txs == user_business_transactions[key]
         IN  /\ call' = [fn |-> "UKTaxComputations.compute_tax_from_transactions",
                         user_id |-> user_id, business_id |-> business_id]
             /\ IF txs = <<>>
                THEN /\ ret' = [status |-> "ok", success |-> FALSE,
                                message |-> "No transactions found for this user and business",
                                user_id |-> user_id, business_id |-> business_id]
                     /\ UNCHANGED computations
                ELSE \E now \in {"t1", "t2"} :
                         /\ ret' = compute_tax(user_id, business_id, txs, now)
                         /\ computations' =
                                [computations EXCEPT
                                     ![key] = compute_tax(user_id, business_id, txs, now)]
    /\ UNCHANGED <<prog, app, db, rules, transactions, user_business_transactions>>

\* An argument of get_transactions left at its default.
None == "<None>"
\* Python truth of an id argument: None and the empty string are false.
Truthy(id) == id \notin {None, ""}

\* UKTaxComputations.get_transactions: everything when both ids are None,
\* else the rows that no given id excludes.
get_transactions(txs, user_id, business_id) ==
    IF user_id = None /\ business_id = None THEN txs
    ELSE SelectSeq(txs, LAMBDA tx :
             /\ ~(Truthy(user_id) /\ tx.user_id # user_id)
             /\ ~(Truthy(business_id) /\ tx.business_id # business_id))

GetTransactions ==
    /\ prog = "uk_tax_computations"
    /\ \E user_id \in Users \cup {None}, business_id \in Businesses \cup {None} :
         /\ call' = [fn |-> "UKTaxComputations.get_transactions",
                     user_id |-> user_id, business_id |-> business_id]
         /\ ret' = [status |-> "ok",
                    transactions |-> get_transactions(transactions, user_id, business_id)]
    /\ UNCHANGED <<prog, app, db, rules, store>>

\* ------------------------- UKTaxCalculator, TaxReliefs, TaxConstants
\* tax_optimization_engine.py:13 and tax_optimization.py:7 import these three
\* classes from backend.uk_tax_calculator, which does not define them.  They
\* are modelled from the specification (sections 3 and 4.1 to 4.6), with the
\* 2024/25 schedule the repository uses elsewhere (TaxRules, the literals of
\* tax_optimization.py).  Inputs and results are in pence; a result is
\* rounded half-up to the penny where the engine hands it back.
TaxConstants_PERSONAL_ALLOWANCE == 12570 * 100
TaxConstants_TAPER_THRESHOLD == 100000 * 100
TaxConstants_BASIC_RATE_LIMIT == 50270 * 100
TaxConstants_HIGHER_RATE_LIMIT == 125140 * 100
TaxConstants_BASIC_RATE == 20
TaxConstants_HIGHER_RATE == 40
TaxConstants_ADDITIONAL_RATE == 45
TaxConstants_NI_PRIMARY_THRESHOLD == 12570 * 100
TaxConstants_NI_UPPER_EARNINGS_LIMIT == 50270 * 100
TaxConstants_NI_RATE == 12
TaxConstants_NI_REDUCED_RATE == 2
TaxConstants_NI_SECONDARY_THRESHOLD == 9100 * 100
\* employer rate, per mille
TaxConstants_NI_EMPLOYER_RATE == 138
TaxConstants_CORPORATION_TAX_SMALL_PROFITS_RATE == 19
TaxConstants_CORPORATION_TAX_MAIN_RATE == 25
TaxConstants_CORPORATION_TAX_LOWER_LIMIT == 50000 * 100
TaxConstants_CORPORATION_TAX_UPPER_LIMIT == 250000 * 100
TaxConstants_ANNUAL_INVESTMENT_ALLOWANCE == 1000000 * 100
DIVIDEND_ALLOWANCE == 500 * 100
\* dividend rates, in 1/10000
DIVIDEND_BASIC_RATE == 875
DIVIDEND_HIGHER_RATE == 3375
DIVIDEND_ADDITIONAL_RATE == 3938
TRADING_ALLOWANCE == 1000 * 100
PROPERTY_ALLOWANCE == 1000 * 100
PENSION_ANNUAL_ALLOWANCE == 60000 * 100

\* n / d rounded half-up to an integer, n >= 0 and d > 0, without doubling n.
RoundDiv(n, d) == (n \div d) + (IF 2 * (n % d) >= d THEN 1 ELSE 0)
\* amount * num / den for amount >= 0: the whole part, and the numerator of
\* the fraction left over den; no product exceeds den * num.
MulWhole(amount, num, den) == (amount \div den) * num + ((amount % den) * num) \div den
MulFrac(amount, num, den) == ((amount % den) * num) % den
MulRate(amount, num, den) == (amount \div den) * num + RoundDiv((amount % den) * num, den)

\* The validation failure every engine raises on a negative monetary input.
EngineValidationError(field) == [status |-> "ValidationError", field |-> field]

\* IncomeTaxEngine: the tapered personal allowance, in half-pence.
UKTax_personal_allowance2(income) ==
    IF income <= TaxConstants_TAPER_THRESHOLD
    THEN 2 * TaxConstants_PERSONAL_ALLOWANCE
    ELSE Max(0, 2 * TaxConstants_PERSONAL_ALLOWANCE - (income - TaxConstants_TAPER_THRESHOLD))

\* Widths, in taxable income, of the basic and the higher band.
UKTax_basic_band_width == TaxConstants_BASIC_RATE_LIMIT - TaxConstants_PERSONAL_ALLOWANCE
UKTax_higher_band_width == TaxConstants_HIGHER_RATE_LIMIT - TaxConstants_BASIC_RATE_LIMIT

\* ProgressiveBandCalculator.compute over the three bands: the amounts taxed
\* in each band, in the unit of taxable.
ProgressiveBands(taxable, basic_width, higher_width) ==
    LET basic == Min(taxable, basic_width)
        higher == Min(taxable - basic, higher_width)
    IN  [basic |-> basic, higher |-> higher, additional |-> taxable - basic - higher]

\* UKTaxCalculator.calculate_paye(income): income tax and National Insurance.
UKTax_calculate_paye(income) ==
    IF income < 0 THEN EngineValidationError("income")
    ELSE
    LET allowance2 == UKTax_personal_allowance2(income)
        taxable2 == Max(0, 2 * income - allowance2)
        bands2 == ProgressiveBands(taxable2, 2 * UKTax_basic_band_width, 2 * UKTax_higher_band_width)
        income_tax == RoundDiv(bands2.basic * TaxConstants_BASIC_RATE
                               + bands2.higher * TaxConstants_HIGHER_RATE
                               + bands2.additional * TaxConstants_ADDITIONAL_RATE, 200)
        below_uel == Max(0, Min(income, TaxConstants_NI_UPPER_EARNINGS_LIMIT)
                            - TaxConstants_NI_PRIMARY_THRESHOLD)
        above_uel == Max(0, income - TaxConstants_NI_UPPER_EARNINGS_LIMIT)
        employee_ni == RoundDiv(below_uel * TaxConstants_NI_RATE
                                + above_uel * TaxConstants_NI_REDUCED_RATE, 100)
        employer_ni == MulRate(Max(0, income - TaxConstants_NI_SECONDARY_THRESHOLD),
                               TaxConstants_NI_EMPLOYER_RATE, 1000)
    IN  [status |-> "ok",
         gross_income |-> income,
         personal_allowance2 |-> allowance2,
         taxable_income2 |-> taxable2,
         income_tax |-> income_tax,
         employee_ni |-> employee_ni,
         employer_ni |-> employer_ni,
         total_employee_deductions |-> income_tax + employee_ni,
         net_income |-> income - income_tax - employee_ni]

\* DividendTaxEngine step 2: what other_income leaves of the basic band, in
\* half-pence, without the floor at 0
UKTax_basic_capacity2_no_floor(other_income) ==
    2 * UKTax_basic_band_width
    - Max(0, 2 * other_income - UKTax_personal_allowance2(other_income))

\* DividendTaxEngine step 2: what other_income leaves of the basic band, in
\* half-pence.
UKTax_basic_capacity2(other_income) ==
    LET footprint2 == Max(0, 2 * other_income - UKTax_personal_allowance2(other_income))
    IN  Max(0, 2 * UKTax_basic_band_width - footprint2)

\* DividendTaxEngine step 2: what other_income leaves of the higher band, in
\* half-pence.
UKTax_higher_capacity2(other_income) ==
    LET footprint2 == Max(0, 2 * other_income - UKTax_personal_allowance2(other_income))
    IN  Max(0, 2 * UKTax_higher_band_width - Max(0, footprint2 - 2 * UKTax_basic_band_width))

\* DividendTaxEngine step 3: taxable dividends allocated to the basic band's
\* remaining capacity, then the higher band's, then the additional band.
UKTax_allocate_dividends2(taxable_dividends, other_income) ==
    LET basic2 == Min(2 * taxable_dividends, UKTax_basic_capacity2(other_income))
        higher2 == Min(2 * taxable_dividends - basic2, UKTax_higher_capacity2(other_income))
    IN  [basic |-> basic2, higher |-> higher2,
         additional |-> 2 * taxable_dividends - basic2 - higher2]

\* UKTaxCalculator.calculate_dividend_tax(dividends, other_income).
UKTax_calculate_dividend_tax(dividends, other_income) ==
    IF dividends < 0 THEN EngineValidationError("dividends")
    ELSE IF other_income < 0 THEN EngineValidationError("other_income")
    ELSE
    LET taxable_dividends == Max(0, dividends - DIVIDEND_ALLOWANCE)
        alloc2 == UKTax_allocate_dividends2(taxable_dividends, other_income)
        whole == MulWhole(alloc2.basic, DIVIDEND_BASIC_RATE, 20000)
                 + MulWhole(alloc2.higher, DIVIDEND_HIGHER_RATE, 20000)
                 + MulWhole(alloc2.additional, DIVIDEND_ADDITIONAL_RATE, 20000)
        frac == MulFrac(alloc2.basic, DIVIDEND_BASIC_RATE, 20000)
                + MulFrac(alloc2.higher, DIVIDEND_HIGHER_RATE, 20000)
                + MulFrac(alloc2.additional, DIVIDEND_ADDITIONAL_RATE, 20000)
    IN  [status |-> "ok",
         dividends |-> dividends,
         other_income |-> other_income,
         dividend_allowance |-> DIVIDEND_ALLOWANCE,
         taxable_dividends |-> taxable_dividends,
         basic_rate_amount2 |-> alloc2.basic,
         higher_rate_amount2 |-> alloc2.higher,
         additional_rate_amount2 |-> alloc2.additional,
         dividend_tax |-> whole + RoundDiv(frac, 20000)]

\* UKTaxCalculator.calculate_corporation_tax(profit): the three regimes.
UKTax_calculate_corporation_tax(profit) ==
    IF profit < 0 THEN EngineValidationError("profit")
    ELSE
    LET small == profit <= TaxConstants_CORPORATION_TAX_LOWER_LIMIT
        main == profit >= TaxConstants_CORPORATION_TAX_UPPER_LIMIT
        tax200 == IF small THEN profit * 2 * TaxConstants_CORPORATION_TAX_SMALL_PROFITS_RATE
                  ELSE IF main THEN profit * 2 * TaxConstants_CORPORATION_TAX_MAIN_RATE
                  ELSE profit * 2 * TaxConstants_CORPORATION_TAX_MAIN_RATE
                       - (TaxConstants_CORPORATION_TAX_UPPER_LIMIT - profit) * 3
        corporation_tax == RoundDiv(tax200, 200)
    IN  [status |-> "ok",
         taxable_profit |-> profit,
         band |-> IF small THEN "small_profits" ELSE IF main THEN "main" ELSE "marginal_relief",
         corporation_tax |-> corporation_tax,
         effective_rate |-> IF profit = 0 THEN 0 ELSE DecDiv(corporation_tax, profit, 4)[1],
         profit_after_tax |-> profit - corporation_tax]

\* TaxReliefs.calculate_trading_allowance / calculate_property_allowance.
Reliefs_calculate_allowance(income, allowance_limit) ==
    IF income < 0 THEN EngineValidationError("income")
    ELSE LET allowance_used == Min(income, allowance_limit)
         IN  [status |-> "ok", income |-> income, allowance_used |-> allowance_used,
              taxable_income |-> income - allowance_used]
Reliefs_calculate_trading_allowance(income) == Reliefs_calculate_allowance(income, TRADING_ALLOWANCE)
Reliefs_calculate_property_allowance(income) == Reliefs_calculate_allowance(income, PROPERTY_ALLOWANCE)

\* TaxReliefs.calculate_pension_relief(contribution, income): the capped
\* contribution at the rate of the band the income falls into.
Reliefs_calculate_pension_relief(contribution, income) ==
    IF contribution < 0 THEN EngineValidationError("contribution")
    ELSE IF income < 0 THEN EngineValidationError("income")
    ELSE
    LET taxable2 == Max(0, 2 * income - UKTax_personal_allowance2(income))
        marginal_rate == IF taxable2 = 0 THEN 0
                         ELSE IF taxable2 <= 2 * UKTax_basic_band_width
                         THEN TaxConstants_BASIC_RATE
                         ELSE IF taxable2 <= 2 * (UKTax_basic_band_width + UKTax_higher_band_width)
                         THEN TaxConstants_HIGHER_RATE
                         ELSE TaxConstants_ADDITIONAL_RATE
        capped == Min(contribution, PENSION_ANNUAL_ALLOWANCE)
    IN  [status |-> "ok", contribution |-> capped, marginal_rate |-> marginal_rate,
         total_relief |-> MulRate(capped, marginal_rate, 100)]

\* ---------------------------------------------- TaxOptimizationEngine
\* An argument as the caller supplies it: a number (val, in pence, or a
\* count), a boolean (val 1 or 0), None, a value of another type, or a
\* keyword argument that is not passed at all.
Num(v) == [kind |-> "num", val |-> v]
Bool(v) == [kind |-> "bool", val |-> v]
NoneArg == [kind |-> "none", val |-> 0]
OtherType == [kind |-> "str", val |-> 0]
Missing == [kind |-> "missing", val |-> 0]

\* A keyword argument with a default takes it when it is not passed.
Default(arg, default) == IF arg.kind = "missing" THEN default ELSE arg

\* The TypeError Python raises when a call lacks a required argument.
MissingArgument(required) ==
    IF \E i \in 1..Len(required) : required[i][2].kind = "missing"
    THEN LET i == CHOOSE i \in 1..Len(required) :
                      /\ required[i][2].kind = "missing"
                      /\ \A j \in 1..(i - 1) : required[j][2].kind # "missing"
         IN  required[i][1]
    ELSE ""

TypeError(field) == [status |-> "TypeError", field |-> field]
ValueError(message, field) == [status |-> "ValueError", message |-> message, field |-> field]

\* TaxOptimizationEngine._validate_positive_amount: "" when it returns.
validate_positive_amount(value) ==
    IF value.kind # "num" THEN "must be a number"
    ELSE IF value.val < 0 THEN "cannot be negative"
    ELSE ""

\* TaxOptimizationEngine._validate_required_fields on one field.
validate_required_field(value) ==
    IF value.kind = "none" THEN "is missing" ELSE validate_positive_amount(value)

\* The checks of one try block, in order: <<field, message>> of the first
\* that raises, <<"", "">> when none does.
RECURSIVE FirstFailure(_)
FirstFailure(checks) ==
    IF checks = <<>> THEN <<"", "">>
    ELSE IF Head(checks)[2] # "" THEN Head(checks)
    ELSE FirstFailure(Tail(checks))

\* The first result of a sequence of engine calls that is an exception,
\* [status |-> "ok"] when all returned.
RECURSIVE FirstRaised(_)
FirstRaised(results) ==
    IF results = <<>> THEN [status |-> "ok"]
    ELSE IF Head(results).status # "ok" THEN Head(results)
    ELSE FirstRaised(Tail(results))

NoRelief == [status |-> "ok", total_relief |-> 0, none |-> TRUE]


\* What a method of the engine reads through self: the class attributes (the
\* calculator and the reliefs object that __init__ stores hold no state).
TaxOptimizationEngine ==
    [OPTIMAL_DIRECTOR_SALARY |-> TaxConstants_PERSONAL_ALLOWANCE,
     INCORPORATION_SAVINGS_THRESHOLD |-> 1000 * 100,
     INCORPORATION_PROPERTIES_THRESHOLD |-> 3]

\* optimal_total_tax with the net income of optimal_paye in the place of its
\* deductions
optimal_total_tax_net_income(optimal_paye, optimal_corp_tax, optimal_dividend_tax) ==
    optimal_paye.net_income + optimal_corp_tax.corporation_tax
    + optimal_dividend_tax.dividend_tax

\* optimize_for_director: the total tax under the optimal strategy.
optimal_total_tax(optimal_paye, optimal_corp_tax, optimal_dividend_tax) ==
    optimal_paye.total_employee_deductions + optimal_corp_tax.corporation_tax
    + optimal_dividend_tax.dividend_tax

\* potential_saving clamped at 0
potential_saving_clamped(current_total_tax, optimal_total) ==
    Max(0, current_total_tax - optimal_total)

\* optimize_for_director: potential_saving.
potential_saving(current_total_tax, optimal_total) == current_total_tax - optimal_total

\* optimize_for_director after validation: current position, optimal
\* position, saving and recommendations.
DirectorPlan(salary, dividends, company_profit, pension_contribution, optimal_salary) ==
    LET paye == UKTax_calculate_paye(salary)
        dividend_tax == UKTax_calculate_dividend_tax(dividends, salary)
        corp_tax == UKTax_calculate_corporation_tax(company_profit)
        pension_relief == IF pension_contribution > 0
                          THEN Reliefs_calculate_pension_relief(pension_contribution, salary)
                          ELSE NoRelief
        optimal_paye == UKTax_calculate_paye(optimal_salary)
        remaining_profit == company_profit - optimal_salary
        optimal_corp_tax == UKTax_calculate_corporation_tax(remaining_profit)
        profit_after_corp_tax == remaining_profit - optimal_corp_tax.corporation_tax
        optimal_dividend_tax == UKTax_calculate_dividend_tax(profit_after_corp_tax, optimal_salary)
        optimal_total == optimal_total_tax(optimal_paye, optimal_corp_tax,
                                           optimal_dividend_tax)
        current_total_tax == paye.total_employee_deductions
                             + corp_tax.corporation_tax
                             + dividend_tax.dividend_tax
        raised == FirstRaised(<<paye, dividend_tax, corp_tax, pension_relief,
                                optimal_paye, optimal_corp_tax>>)
    IN  IF raised.status # "ok" THEN raised
        ELSE IF optimal_dividend_tax.status # "ok" THEN optimal_dividend_tax
        ELSE [status |-> "ok",
              user_type |-> "Company Director",
              current_position |->
                  [salary |-> salary, dividends |-> dividends,
                   total_tax |-> current_total_tax,
                   net_income |-> salary + dividends - current_total_tax],
              optimal_position |->
                  [salary |-> optimal_salary, dividends |-> profit_after_corp_tax,
                   total_tax |-> optimal_total,
                   net_income |-> optimal_salary + profit_after_corp_tax - optimal_total],
              potential_saving |-> potential_saving(current_total_tax, optimal_total),
              remaining_profit |-> remaining_profit,
              pension_relief |-> pension_relief.total_relief,
              recommendations |->
                  <<"Optimal Salary Level", "Dividend Strategy">>
                  \o (IF pension_contribution = 0 THEN <<"Pension Contributions">> ELSE <<>>)
                  \o <<"Dividend Timing">>,
              detailed_calculations |->
                  [paye |-> paye, dividend_tax |-> dividend_tax, corporation_tax |-> corp_tax,
                   optimal_paye |-> optimal_paye,
                   optimal_dividend_tax |-> optimal_dividend_tax,
                   optimal_corporation_tax |-> optimal_corp_tax]]

\* optimize_for_sole_trader after validation.
SoleTraderPlan(trading_income, allowable_expenses, pension_contribution, capital_allowances) ==
    LET taxable_profit == trading_income - allowable_expenses - capital_allowances
        trading_allowance == Reliefs_calculate_trading_allowance(trading_income)
        profit_with_expenses == taxable_profit
        profit_with_allowance == trading_income - TRADING_ALLOWANCE
        use_allowance == \/ trading_income <= TRADING_ALLOWANCE
                         \/ /\ profit_with_allowance < profit_with_expenses
                            /\ allowable_expenses + capital_allowances = 0
        final_taxable_profit == IF use_allowance THEN profit_with_allowance
                                ELSE profit_with_expenses
        paye == UKTax_calculate_paye(final_taxable_profit)
        pension_relief == IF pension_contribution > 0
                          THEN Reliefs_calculate_pension_relief(pension_contribution,
                                                                final_taxable_profit)
                          ELSE NoRelief
        adjusted_profit == Max(0, final_taxable_profit - pension_contribution)
        adjusted_paye == IF pension_contribution > 0 THEN UKTax_calculate_paye(adjusted_profit)
                         ELSE paye
        difference == profit_with_expenses - profit_with_allowance
        raised == FirstRaised(<<trading_allowance, paye, pension_relief, adjusted_paye>>)
    IN  IF raised.status # "ok" THEN raised
        ELSE [status |-> "ok",
              user_type |-> "Sole Trader",
              income_analysis |->
                  [trading_income |-> trading_income,
                   allowable_expenses |-> allowable_expenses,
                   capital_allowances |-> capital_allowances,
                   taxable_profit |-> final_taxable_profit,
                   method_used |-> IF use_allowance THEN "Trading Allowance" ELSE "Expenses"],
              tax_position |-> adjusted_paye,
              pension_relief |-> pension_relief.total_relief,
              trading_allowance_benefit |->
                  IF use_allowance
                  THEN MulRate(IF difference < 0 THEN -difference ELSE difference, 20, 100)
                  ELSE 0,
              recommendations |->
                  (IF allowable_expenses * 5 < trading_income
                   THEN <<"Enhance Expense Tracking">> ELSE <<>>)
                  \o <<"Annual Investment Allowance (AIA)">>
                  \o (IF pension_contribution = 0 THEN <<"Pension Contributions">> ELSE <<>>)
                  \o (IF ~use_allowance /\ trading_income <= 1000 * 100
                      THEN <<"Trading Allowance">> ELSE <<>>)
                  \o <<"Income Splitting">>
                  \o (IF final_taxable_profit < TaxConstants_PERSONAL_ALLOWANCE
                      THEN <<"Class 2 NI Contributions">> ELSE <<>>)]

\* optimize_for_company_owner after validation.  The reliefs are products
\* with 0.247 and 0.19: whole pence plus thousandths, rounded on output.
CompanyOwnerPlan(company_profit, salary, dividends, r_and_d_expenditure, capital_investment, optimal_salary) ==
    LET corp_tax == UKTax_calculate_corporation_tax(company_profit)
        rd == IF r_and_d_expenditure > 0 THEN r_and_d_expenditure ELSE 0
        aia == IF capital_investment > 0
               THEN Min(capital_investment, TaxConstants_ANNUAL_INVESTMENT_ALLOWANCE) ELSE 0
        rd_rate == 13 * TaxConstants_CORPORATION_TAX_SMALL_PROFITS_RATE
        ca_rate == 10 * TaxConstants_CORPORATION_TAX_SMALL_PROFITS_RATE
        total_whole == MulWhole(rd, rd_rate, 1000) + MulWhole(aia, ca_rate, 1000)
        total_frac == MulFrac(rd, rd_rate, 1000) + MulFrac(aia, ca_rate, 1000)
        remaining_profit == company_profit - optimal_salary - r_and_d_expenditure
        optimal_corp_tax == UKTax_calculate_corporation_tax(remaining_profit)
        profit_after_tax == remaining_profit - optimal_corp_tax.corporation_tax
        raised == FirstRaised(<<corp_tax, optimal_corp_tax>>)
    IN  IF raised.status # "ok" THEN raised
        ELSE [status |-> "ok",
              user_type |-> "Company Owner",
              company_analysis |->
                  [profit |-> company_profit,
                   corporation_tax |-> corp_tax.corporation_tax,
                   profit_after_tax |-> corp_tax.profit_after_tax,
                   effective_rate |-> corp_tax.effective_rate],
              reliefs_claimed |->
                  [r_and_d_relief |-> MulRate(rd, rd_rate, 1000),
                   capital_allowance_relief |-> MulRate(aia, ca_rate, 1000),
                   total_relief |-> total_whole + RoundDiv(total_frac, 1000)],
              optimal_extraction |->
                  [salary |-> optimal_salary,
                   remaining_profit |-> remaining_profit,
                   maximum_dividend |-> profit_after_tax,
                   total_available |-> optimal_salary + profit_after_tax],
              recommendations |->
                  <<"Salary Optimization", "Dividend Planning">>
                  \o (IF r_and_d_expenditure = 0 THEN <<"R&D Tax Relief">>
                      ELSE <<"R&D Relief Claimed">>)
                  \o (IF capital_investment = 0 THEN <<"Annual Investment Allowance">>
                      ELSE <<"Capital Allowances Claimed">>)
                  \o <<"Entrepreneur's Relief", "Patent Box", "Employer Pension Contributions">>]

\* The income tax left after the finance cost relief (in 1/100 of a penny):
\* the relief reduces the tax and cannot take it below zero.
tax_after_relief_no_floor(income_tax, finance_cost_relief100) ==
    income_tax * 100 - finance_cost_relief100
tax_after_relief(income_tax, finance_cost_relief100) ==
    Max(0, income_tax * 100 - finance_cost_relief100)

\* The test that recommends incorporation: the saving (in 1/100 of a penny)
\* is above the savings threshold and there are enough properties.
incorporation_recommended_either(incorporation_saving100, number_of_properties, savings_threshold, properties_threshold) ==
    \/ incorporation_saving100 > savings_threshold * 100
    \/ number_of_properties >= properties_threshold
incorporation_recommended(incorporation_saving100, number_of_properties, savings_threshold, properties_threshold) ==
    /\ incorporation_saving100 > savings_threshold * 100
    /\ number_of_properties >= properties_threshold

\* optimize_for_landlord after validation.  The finance cost relief is 0.20
\* of the mortgage interest, so the taxes it enters are in 1/100 of a penny
\* (suffix 100) and rounded on output.
LandlordPlan(rental_income, mortgage_interest, other_expenses, is_furnished, number_of_properties, savings_threshold, properties_threshold) ==
    LET property_allowance == Reliefs_calculate_property_allowance(rental_income)
        use_property_allowance == /\ rental_income <= PROPERTY_ALLOWANCE
                                  /\ other_expenses + mortgage_interest < PROPERTY_ALLOWANCE
        profit_before_finance_costs == rental_income - other_expenses
        finance_cost_relief100 == mortgage_interest * TaxConstants_BASIC_RATE
        taxable_income == IF use_property_allowance THEN property_allowance.taxable_income
                          ELSE Max(0, profit_before_finance_costs)
        paye == UKTax_calculate_paye(taxable_income)
        actual_tax100 == IF ~use_property_allowance /\ mortgage_interest > 0
                         THEN tax_after_relief(paye.income_tax, finance_cost_relief100)
                              + paye.employee_ni * 100
                         ELSE paye.total_employee_deductions * 100
        corp_tax_calc == UKTax_calculate_corporation_tax(
                             rental_income - other_expenses - mortgage_interest)
        incorporation_saving100 == actual_tax100 - corp_tax_calc.corporation_tax * 100
        recommend == incorporation_recommended(incorporation_saving100, number_of_properties,
                                               savings_threshold, properties_threshold)
    IN  IF property_allowance.status # "ok" THEN property_allowance
        ELSE IF paye.status # "ok" THEN paye
        ELSE IF corp_tax_calc.status # "ok" THEN corp_tax_calc
        ELSE [status |-> "ok",
              user_type |-> "Landlord",
              property_details |->
                  [rental_income |-> rental_income,
                   mortgage_interest |-> mortgage_interest,
                   other_expenses |-> other_expenses,
                   number_of_properties |-> number_of_properties,
                   is_furnished |-> is_furnished],
              tax_calculation |->
                  [method_used |-> IF use_property_allowance THEN "Property Allowance"
                                   ELSE "Expenses + Finance Cost Restriction",
                   use_property_allowance |-> use_property_allowance,
                   taxable_income |-> taxable_income,
                   income_tax |-> RoundDiv(actual_tax100, 100),
                   finance_cost_relief |-> IF ~use_property_allowance
                                           THEN RoundDiv(finance_cost_relief100, 100) ELSE 0],
              incorporation_analysis |->
                  [current_tax |-> RoundDiv(actual_tax100, 100),
                   corporation_tax_if_incorporated |-> corp_tax_calc.corporation_tax,
                   potential_saving100 |-> incorporation_saving100,
                   recommended |-> recommend],
              recommendations |->
                  (IF ~use_property_allowance /\ rental_income <= PROPERTY_ALLOWANCE
                   THEN <<"Property Allowance">> ELSE <<>>)
                  \o (IF is_furnished THEN <<"Replacement of Domestic Items Relief">>
                      ELSE <<"Consider Furnished Lettings">>)
                  \o (IF is_furnished THEN <<"Wear and Tear Allowance">> ELSE <<>>)
                  \o <<"Capital Allowances">>
                  \o (IF recommend THEN <<"Consider Incorporation">> ELSE <<>>)
                  \o <<"Maximize Allowable Expenses">>
                  \o (IF number_of_properties > 1 THEN <<"Property Business Election">>
                      ELSE <<>>)
                  \o <<"Joint Ownership">>]

\* TaxOptimizationEngine.optimize_for_director (tax_optimization_engine.py).
optimize_for_director(self, kw) ==
    LET missing == MissingArgument(<< <<"salary", kw.salary>>, <<"dividends", kw.dividends>>,
                                      <<"company_profit", kw.company_profit>> >>)
        pension_contribution == Default(kw.pension_contribution, Num(0))
        failure == FirstFailure(<< <<"salary", validate_required_field(kw.salary)>>,
                                   <<"dividends", validate_required_field(kw.dividends)>>,
                                   <<"company_profit", validate_required_field(kw.company_profit)>>,
                                   <<"pension_contribution",
                                     validate_positive_amount(pension_contribution)>> >>)
    IN  IF missing # "" THEN TypeError(missing)
        ELSE IF failure[1] # ""
        THEN ValueError("Invalid input for director optimization", failure[1])
        ELSE DirectorPlan(kw.salary.val, kw.dividends.val, kw.company_profit.val,
                          pension_contribution.val, self.OPTIMAL_DIRECTOR_SALARY)

\* TaxOptimizationEngine.optimize_for_sole_trader (tax_optimization_engine.py).
optimize_for_sole_trader(self, kw) ==
    LET missing == MissingArgument(<< <<"trading_income", kw.trading_income>>,
                                      <<"allowable_expenses", kw.allowable_expenses>> >>)
        pension_contribution == Default(kw.pension_contribution, Num(0))
        capital_allowances == Default(kw.capital_allowances, Num(0))
        failure == FirstFailure(<< <<"trading_income", validate_required_field(kw.trading_income)>>,
                                   <<"allowable_expenses",
                                     validate_required_field(kw.allowable_expenses)>>,
                                   <<"pension_contribution",
                                     validate_positive_amount(pension_contribution)>>,
                                   <<"capital_allowances",
                                     validate_positive_amount(capital_allowances)>> >>)
    IN  IF missing # "" THEN TypeError(missing)
        ELSE IF failure[1] # ""
        THEN ValueError("Invalid input for sole trader optimization", failure[1])
        ELSE SoleTraderPlan(kw.trading_income.val, kw.allowable_expenses.val,
                            pension_contribution.val, capital_allowances.val)

\* TaxOptimizationEngine.optimize_for_company_owner (tax_optimization_engine.py).
optimize_for_company_owner(self, kw) ==
    LET missing == MissingArgument(<< <<"company_profit", kw.company_profit>>,
                                      <<"salary", kw.salary>>, <<"dividends", kw.dividends>> >>)
        r_and_d_expenditure == Default(kw.r_and_d_expenditure, Num(0))
        capital_investment == Default(kw.capital_investment, Num(0))
        failure == FirstFailure(<< <<"company_profit", validate_required_field(kw.company_profit)>>,
                                   <<"salary", validate_required_field(kw.salary)>>,
                                   <<"dividends", validate_required_field(kw.dividends)>>,
                                   <<"r_and_d_expenditure",
                                     validate_positive_amount(r_and_d_expenditure)>>,
                                   <<"capital_investment",
                                     validate_positive_amount(capital_investment)>> >>)
    IN  IF missing # "" THEN TypeError(missing)
        ELSE IF failure[1] # ""
        THEN ValueError("Invalid input for company owner optimization", failure[1])
        ELSE CompanyOwnerPlan(kw.company_profit.val, kw.salary.val, kw.dividends.val,
                              r_and_d_expenditure.val, capital_investment.val,
                              self.OPTIMAL_DIRECTOR_SALARY)

\* TaxOptimizationEngine.optimize_for_landlord (tax_optimization_engine.py).
optimize_for_landlord(self, kw) ==
    LET missing == MissingArgument(<< <<"rental_income", kw.rental_income>>,
                                      <<"mortgage_interest", kw.mortgage_interest>>,
                                      <<"other_expenses", kw.other_expenses>> >>)
        is_furnished == Default(kw.is_furnished, Bool(0))
        number_of_properties == Default(kw.number_of_properties, Num(1))
        failure == FirstFailure(<< <<"rental_income", validate_required_field(kw.rental_income)>>,
                                   <<"mortgage_interest",
                                     validate_required_field(kw.mortgage_interest)>>,
                                   <<"other_expenses", validate_required_field(kw.other_expenses)>>,
                                   <<"number_of_properties",
                                     IF number_of_properties.kind \notin {"num", "bool"}
                                        \/ number_of_properties.val < 1
                                     THEN "must be a positive integer" ELSE "">>,
                                   <<"is_furnished",
                                     IF is_furnished.kind # "bool"
                                     THEN "must be a boolean" ELSE "">> >>)
    IN  IF missing # "" THEN TypeError(missing)
        ELSE IF failure[1] # ""
        THEN ValueError("Invalid input for landlord optimization", failure[1])
        ELSE LandlordPlan(kw.rental_income.val, kw.mortgage_interest.val, kw.other_expenses.val,
                          is_furnished.val = 1, number_of_properties.val,
                          self.INCORPORATION_SAVINGS_THRESHOLD, self.INCORPORATION_PROPERTIES_THRESHOLD)

\* The methods of the instance that __init__ built.

valid_types == {"director", "sole_trader", "company_owner", "landlord"}

\* TaxOptimizationEngine.comprehensive_tax_plan (tax_optimization_engine.py).
\* user_type "" stands for every falsy user_type (None, the empty string).
\* The except clauses of comprehensive_tax_plan: a TypeError of the optimizer
\* and a ValueError of the optimizer are both re-raised as ValueError.
comprehensive_tax_plan_reraised(result) ==
    IF result.status = "TypeError"
    THEN ValueError("Missing required parameters", result.field)
    ELSE IF result.status = "ValueError"
    THEN ValueError("Error in optimization", result.field)
    ELSE result

Engine_comprehensive_tax_plan(user_type, kw) ==
    IF user_type = "" THEN ValueError("user_type is required", "user_type")
    ELSE IF user_type \notin valid_types THEN ValueError("Unknown user type", "user_type")
    ELSE comprehensive_tax_plan_reraised(
             CASE user_type = "director" -> optimize_for_director(TaxOptimizationEngine, kw)
               [] user_type = "sole_trader" -> optimize_for_sole_trader(TaxOptimizationEngine, kw)
               [] user_type = "company_owner" -> optimize_for_company_owner(TaxOptimizationEngine, kw)
               [] user_type = "landlord" -> optimize_for_landlord(TaxOptimizationEngine, kw))

\* The same five methods of tax_optimization.py, the engine's earlier version:
\* no validation step, the amounts go to the calculators as they come.
Legacy_optimize_for_director(kw) ==
    LET missing == MissingArgument(<< <<"salary", kw.salary>>, <<"dividends", kw.dividends>>,
                                      <<"company_profit", kw.company_profit>> >>)
    IN  IF missing # "" THEN TypeError(missing)
        ELSE DirectorPlan(kw.salary.val, kw.dividends.val, kw.company_profit.val,
                          Default(kw.pension_contribution, Num(0)).val, 12570 * 100)

Legacy_optimize_for_sole_trader(kw) ==
    LET missing == MissingArgument(<< <<"trading_income", kw.trading_income>>,
                                      <<"allowable_expenses", kw.allowable_expenses>> >>)
    IN  IF missing # "" THEN TypeError(missing)
        ELSE SoleTraderPlan(kw.trading_income.val, kw.allowable_expenses.val,
                            Default(kw.pension_contribution, Num(0)).val,
                            Default(kw.capital_allowances, Num(0)).val)

Legacy_optimize_for_company_owner(kw) ==
    LET missing == MissingArgument(<< <<"company_profit", kw.company_profit>>,
                                      <<"salary", kw.salary>>, <<"dividends", kw.dividends>> >>)
    IN  IF missing # "" THEN TypeError(missing)
        ELSE CompanyOwnerPlan(kw.company_profit.val, kw.salary.val, kw.dividends.val,
                              Default(kw.r_and_d_expenditure, Num(0)).val,
                              Default(kw.capital_investment, Num(0)).val, 12570 * 100)

Legacy_optimize_for_landlord(kw) ==
    LET missing == MissingArgument(<< <<"rental_income", kw.rental_income>>,
                                      <<"mortgage_interest", kw.mortgage_interest>>,
                                      <<"other_expenses", kw.other_expenses>> >>)
    IN  IF missing # "" THEN TypeError(missing)
        ELSE LandlordPlan(kw.rental_income.val, kw.mortgage_interest.val, kw.other_expenses.val,
                          Default(kw.is_furnished, Bool(0)).val # 0,
                          Default(kw.number_of_properties, Num(1)).val, 1000 * 100, 3)

\* comprehensive_tax_plan of tax_optimization.py: an unknown user_type gets a
\* dictionary with an 'error' key back, a TypeError passes through.
Legacy_comprehensive_tax_plan(user_type, kw) ==
    CASE user_type = "director" -> Legacy_optimize_for_director(kw)
      [] user_type = "sole_trader" -> Legacy_optimize_for_sole_trader(kw)
      [] user_type = "company_owner" -> Legacy_optimize_for_company_owner(kw)
      [] user_type = "landlord" -> Legacy_optimize_for_landlord(kw)
      [] OTHER -> [status |-> "ok", error |-> "Unknown user type", user_type |-> user_type,
                   valid_types |-> valid_types]

\* ---- inputs
Pounds(S) == {Num(p * 100) : p \in S}
Invalid == {NoneArg, OtherType}

EngineDirectorKwargs ==
    [salary : Pounds({30000, 0}) \cup {Num(-1), Missing} \cup Invalid,
     dividends : Pounds({20000, 0}) \cup {Num(-1)},
     company_profit : Pounds({60000, 10000}) \cup {Num(-1)},
     pension_contribution : Pounds({0, 3000}) \cup {Num(-1), Missing, NoneArg}]
EngineSoleTraderKwargs ==
    [trading_income : Pounds({50000, 800, 1000}) \cup {Num(-1), Missing, NoneArg},
     allowable_expenses : Pounds({0, 8000}) \cup {Num(-1)},
     pension_contribution : Pounds({3000}) \cup {Num(-1), Missing},
     capital_allowances : Pounds({2000}) \cup {Missing}]
EngineCompanyOwnerKwargs ==
    [company_profit : Pounds({100000, 20000}) \cup {Num(-1)},
     salary : Pounds({30000}) \cup {Missing},
     dividends : Pounds({40000}) \cup {Num(-1)},
     r_and_d_expenditure : Pounds({15000}) \cup {Num(-1), Missing},
     capital_investment : Pounds({20000, 1000001}) \cup {Num(-1), Missing}]
EngineLandlordKwargs ==
    [rental_income : Pounds({100000, 2000}) \cup {Num(-1), Missing},
     mortgage_interest : Pounds({0, 1500}) \cup {Num(-1)},
     other_expenses : Pounds({0, 5000}),
     is_furnished : {Missing, Bool(1), OtherType},
     number_of_properties : {Missing, Num(3), Num(0)}]

\* tax_optimization.py is given numbers only: what it does with None or a
\* string is decided inside the calculators.
LegacyDirectorKwargs ==
    [salary : Pounds({30000, 0}) \cup {Num(-1), Missing},
     dividends : Pounds({20000, 0}) \cup {Num(-1)},
     company_profit : Pounds({60000, 10000}) \cup {Num(-1)},
     pension_contribution : Pounds({0, 3000}) \cup {Num(-1), Missing}]
LegacySoleTraderKwargs ==
    [trading_income : Pounds({50000, 800, 1000}) \cup {Num(-1), Missing},
     allowable_expenses : Pounds({0, 8000}) \cup {Num(-1)},
     pension_contribution : Pounds({3000}) \cup {Num(-1), Missing},
     capital_allowances : Pounds({2000}) \cup {Missing}]
LegacyCompanyOwnerKwargs ==
    [company_profit : Pounds({100000, 20000}) \cup {Num(-1)},
     salary : Pounds({30000}) \cup {Missing},
     dividends : Pounds({40000}) \cup {Num(-1)},
     r_and_d_expenditure : Pounds({15000}) \cup {Num(-1), Missing},
     capital_investment : Pounds({20000, 1000001}) \cup {Num(-1), Missing}]
LegacyLandlordKwargs ==
    [rental_income : Pounds({100000, 2000}) \cup {Num(-1), Missing},
     mortgage_interest : Pounds({0, 1500}) \cup {Num(-1)},
     other_expenses : Pounds({0, 5000}),
     is_furnished : {Missing, Bool(1)},
     number_of_properties : {Missing, Num(3), Num(0)}]

UserTypes == valid_types \cup {"employee", ""}

\* The keyword arguments a plan request carries: those of the optimizer its
\* user_type names, a director's salary alone with any other user_type.
SalaryOnly(kwargs) ==
    {kw \in kwargs : /\ kw.dividends = Num(20000 * 100)
                     /\ kw.company_profit = Num(60000 * 100)
                     /\ kw.pension_contribution = Missing}
EngineKwargs(user_type) ==
    CASE user_type = "director" -> EngineDirectorKwargs
      [] user_type = "sole_trader" -> EngineSoleTraderKwargs
      [] user_type = "company_owner" -> EngineCompanyOwnerKwargs
      [] user_type = "landlord" -> EngineLandlordKwargs
      [] OTHER -> SalaryOnly(EngineDirectorKwargs)
LegacyKwargs(user_type) ==
    CASE user_type = "director" -> LegacyDirectorKwargs
      [] user_type = "sole_trader" -> LegacySoleTraderKwargs
      [] user_type = "company_owner" -> LegacyCompanyOwnerKwargs
      [] user_type = "landlord" -> LegacyLandlordKwargs
      [] OTHER -> SalaryOnly(LegacyDirectorKwargs)

\* ---- actions: one call of one public method
EngineOptimizeForDirector ==
    /\ prog = "tax_optimization_engine"
    /\ \E kw \in EngineDirectorKwargs :
         /\ call' = [fn |-> "optimize_for_director", kwargs |-> kw]
         /\ ret' = optimize_for_director(TaxOptimizationEngine, kw)
    /\ UNCHANGED <<prog, app, db, rules, store>>

EngineOptimizeForSoleTrader ==
    /\ prog = "tax_optimization_engine"
    /\ \E kw \in EngineSoleTraderKwargs :
         /\ call' = [fn |-> "optimize_for_sole_trader", kwargs |-> kw]
         /\ ret' = optimize_for_sole_trader(TaxOptimizationEngine, kw)
    /\ UNCHANGED <<prog, app, db, rules, store>>

EngineOptimizeForCompanyOwner ==
    /\ prog = "tax_optimization_engine"
    /\ \E kw \in EngineCompanyOwnerKwargs :
         /\ call' = [fn |-> "optimize_for_company_owner", kwargs |-> kw]
         /\ ret' = optimize_for_company_owner(TaxOptimizationEngine, kw)
    /\ UNCHANGED <<prog, app, db, rules, store>>

EngineOptimizeForLandlord ==
    /\ prog = "tax_optimization_engine"
    /\ \E kw \in EngineLandlordKwargs :
         /\ call' = [fn |-> "optimize_for_landlord", kwargs |-> kw]
         /\ ret' = optimize_for_landlord(TaxOptimizationEngine, kw)
    /\ UNCHANGED <<prog, app, db, rules, store>>

EngineComprehensiveTaxPlan ==
    /\ prog = "tax_optimization_engine"
    /\ \E user_type \in UserTypes :
         \E kw \in EngineKwargs(user_type) :
           /\ call' = [fn |-> "comprehensive_tax_plan", user_type |-> user_type, kwargs |-> kw]
           /\ ret' = Engine_comprehensive_tax_plan(user_type, kw)
    /\ UNCHANGED <<prog, app, db, rules, store>>

LegacyOptimizeForDirector ==
    /\ prog = "tax_optimization"
    /\ \E kw \in LegacyDirectorKwargs :
         /\ call' = [fn |-> "optimize_for_director", kwargs |-> kw]
         /\ ret' = Legacy_optimize_for_director(kw)
    /\ UNCHANGED <<prog, app, db, rules, store>>

LegacyOptimizeForSoleTrader ==
    /\ prog = "tax_optimization"
    /\ \E kw \in LegacySoleTraderKwargs :
         /\ call' = [fn |-> "optimize_for_sole_trader", kwargs |-> kw]
         /\ ret' = Legacy_optimize_for_sole_trader(kw)
    /\ UNCHANGED <<prog, app, db, rules, store>>

LegacyOptimizeForCompanyOwner ==
    /\ prog = "tax_optimization"
    /\ \E kw \in LegacyCompanyOwnerKwargs :
         /\ call' = [fn |-> "optimize_for_company_owner", kwargs |-> kw]
         /\ ret' = Legacy_optimize_for_company_owner(kw)
    /\ UNCHANGED <<prog, app, db, rules, store>>

LegacyOptimizeForLandlord ==
    /\ prog = "tax_optimization"
    /\ \E kw \in LegacyLandlordKwargs :
         /\ call' = [fn |-> "optimize_for_landlord", kwargs |-> kw]
         /\ ret' = Legacy_optimize_for_landlord(kw)
    /\ UNCHANGED <<prog, app, db, rules, store>>

LegacyComprehensiveTaxPlan ==
    /\ prog = "tax_optimization"
    /\ \E user_type \in UserTypes :
         \E kw \in LegacyKwargs(user_type) :
           /\ call' = [fn |-> "comprehensive_tax_plan", user_type |-> user_type, kwargs |-> kw]
           /\ ret' = Legacy_comprehensive_tax_plan(user_type, kw)
    /\ UNCHANGED <<prog, app, db, rules, store>>

\* Direct calls of the calculator the engines are built on.
OtherIncomes ==
    {-1, 0, 30000 * 100, 60000 * 100, 110000 * 100, 130000 * 100}
    \cup Near(TaxConstants_PERSONAL_ALLOWANCE) \cup Near(TaxConstants_BASIC_RATE_LIMIT)
    \cup Near(TaxConstants_HIGHER_RATE_LIMIT)
DividendAmounts ==
    {-1, 0, 20000 * 100, 40000 * 100, 80000 * 100, 120000 * 100} \cup Near(DIVIDEND_ALLOWANCE)
CalculatorProfits ==
    {-1, 0, 47430 * 100, 100000 * 100, 300000 * 100}
    \cup Near(TaxConstants_CORPORATION_TAX_LOWER_LIMIT)
    \cup Near(TaxConstants_CORPORATION_TAX_UPPER_LIMIT)

CalculatePaye ==
    /\ prog = "uk_tax_calculator"
    /\ \E income \in OtherIncomes :
         /\ call' = [fn |-> "calculate_paye", income |-> income]
         /\ ret' = UKTax_calculate_paye(income)
    /\ UNCHANGED <<prog, app, db, rules, store>>

CalculateDividendTax ==
    /\ prog = "uk_tax_calculator"
    /\ \E dividends \in DividendAmounts, other_income \in OtherIncomes :
         /\ call' = [fn |-> "calculate_dividend_tax", dividends |-> dividends,
                     other_income |-> other_income]
         /\ ret' = UKTax_calculate_dividend_tax(dividends, other_income)
    /\ UNCHANGED <<prog, app, db, rules, store>>

CalculateCorporationTax ==
    /\ prog = "uk_tax_calculator"
    /\ \E profit \in CalculatorProfits :
         /\ call' = [fn |-> "calculate_corporation_tax", profit |-> profit]
         /\ ret' = UKTax_calculate_corporation_tax(profit)
    /\ UNCHANGED <<prog, app, db, rules, store>>


\* ------------------------------------------ one engine, concurrent requests
\* app.py:22 builds one TaxOptimizationEngine when the module is imported and
\* every request handler calls a method of that instance; a threaded server
\* runs the handlers concurrently.  A call is modelled in the steps at which
\* it can meet shared state: it validates its arguments, reads the
\* attributes it needs through self, computes and returns.
Threads == {"w1", "w2"}
Idle == [pc |-> "idle"]
InFlight == {"entered", "validated", "read"}

\* The optimizer calls the request threads make.
ThreadCalls ==
    {[fn |-> "optimize_for_director",
      kwargs |-> [salary |-> Num(s), dividends |-> Num(20000 * 100),
                  company_profit |-> Num(60000 * 100), pension_contribution |-> Missing]] :
        s \in {30000 * 100, -1}}
    \cup {[fn |-> "optimize_for_sole_trader",
           kwargs |-> [trading_income |-> Num(50000 * 100),
                       allowable_expenses |-> Num(8000 * 100),
                       pension_contribution |-> Missing, capital_allowances |-> Missing]]}
    \cup {[fn |-> "optimize_for_company_owner",
           kwargs |-> [company_profit |-> Num(100000 * 100), salary |-> Num(30000 * 100),
                       dividends |-> Num(40000 * 100),
                       r_and_d_expenditure |-> Num(15000 * 100),
                       capital_investment |-> Missing]]}
    \cup {[fn |-> "optimize_for_landlord",
           kwargs |-> [rental_income |-> Num(100000 * 100), mortgage_interest |-> Num(0),
                       other_expenses |-> Num(0), is_furnished |-> Missing,
                       number_of_properties |-> n]] :
            n \in {Missing, Num(3)}}

\* The method a call names, run on the attributes it read through self.
Method(self, c) ==
    CASE c.fn = "optimize_for_director" -> optimize_for_director(self, c.kwargs)
      [] c.fn = "optimize_for_sole_trader" -> optimize_for_sole_trader(self, c.kwargs)
      [] c.fn = "optimize_for_company_owner" -> optimize_for_company_owner(self, c.kwargs)
      [] c.fn = "optimize_for_landlord" -> optimize_for_landlord(self, c.kwargs)

\* What a call leaves in the attributes of the instance, were it to keep the
\* salary of the last director call for later calls.
self_after_call_keeping_salary(self, c) ==
    IF /\ c.fn = "optimize_for_director"
       /\ Method(TaxOptimizationEngine, c).status \notin {"TypeError", "ValueError"}
    THEN [self EXCEPT !.OPTIMAL_DIRECTOR_SALARY = c.kwargs.salary.val]
    ELSE self
\* What a call leaves in the attributes of the instance: no method assigns to
\* self, to the class or to TaxConstants.
self_after_call(self, c) ==
    self

\* A request thread enters an optimizer method; the requests in flight at
\* that moment, and this one if there are any, have overlapped.
OptimizerRequest ==
    /\ prog = "app"
    /\ \E t \in Threads, c \in ThreadCalls :
         /\ requests[t].pc = "idle"
         /\ requests' = [u \in Threads |->
                            IF u = t
                            THEN [pc |-> "entered", call |-> c,
                                  overlapped |-> \E v \in Threads \ {t} :
                                                     requests[v].pc \in InFlight]
                            ELSE IF requests[u].pc \in InFlight
                            THEN [requests[u] EXCEPT !.overlapped = TRUE]
                            ELSE requests[u]]
    /\ UNCHANGED <<prog, call, ret, rules, store, db, optimizer>>

\* Where the validation block leaves a request: done with the error it
\* raised, or past it.
after_validation(request, result) ==
    IF result.status \in {"TypeError", "ValueError"}
    THEN [pc |-> "done", call |-> request.call, overlapped |-> request.overlapped,
          result |-> result]
    ELSE [request EXCEPT !.pc = "validated"]

OptimizerValidate ==
    /\ prog = "app"
    /\ \E t \in Threads :
         /\ requests[t].pc = "entered"
         /\ requests' = [requests EXCEPT ![t] =
                            after_validation(@, Method(TaxOptimizationEngine, @.call))]
    /\ UNCHANGED <<prog, call, ret, rules, store, db, optimizer>>

OptimizerReadSelf ==
    /\ prog = "app"
    /\ \E t \in Threads :
         /\ requests[t].pc = "validated"
         /\ requests' = [requests EXCEPT ![t] =
                            [pc |-> "read", call |-> @.call, overlapped |-> @.overlapped,
                             self |-> optimizer]]
    /\ UNCHANGED <<prog, call, ret, rules, store, db, optimizer>>

OptimizerReturn ==
    /\ prog = "app"
    /\ \E t \in Threads :
         /\ requests[t].pc = "read"
         /\ requests' = [requests EXCEPT ![t] =
                            [pc |-> "done", call |-> @.call, overlapped |-> @.overlapped,
                             result |-> Method(@.self, @.call)]]
         /\ optimizer' = self_after_call(optimizer, requests[t].call)
    /\ UNCHANGED <<prog, call, ret, rules, store, db>>

OptimizerRespond ==
    /\ prog = "app"
    /\ \E t \in Threads :
         /\ requests[t].pc = "done"
         /\ requests' = [requests EXCEPT ![t] = Idle]
    /\ UNCHANGED <<prog, call, ret, rules, store, db, optimizer>>

\* ------------------------------------------------ accruals and month-end close
\* backend/services/accrual_service.py and reconciliation_service.py over the
\* tables of backend/models.  Amounts are in whole pounds; every service call
\* runs against one Session and commits before it returns.

Periods == {"2026-01", "2026-02"}


\* The transactions table the services find: two payroll payments, one of
\* them high-risk, and one utilities bill, none reconciled yet.
LedgerTransactions ==
    << [id |-> 1, period |-> "2026-01", category |-> "payroll", amount |-> 40000,
        risk_score |-> 10, is_reconciled |-> FALSE],
       [id |-> 2, period |-> "2026-02", category |-> "payroll", amount |-> 70000,
        risk_score |-> 90, is_reconciled |-> FALSE],
       [id |-> 3, period |-> "2026-02", category |-> "utilities", amount |-> 900,
        risk_score |-> 20, is_reconciled |-> FALSE] >>


\* An Optional[float]: None, or a value.

RECURSIVE SumOfAmounts(_, _)
SumOfAmounts(rows, ids) ==
    IF ids = {} THEN 0
    ELSE LET i == CHOOSE j \in ids : TRUE
         IN rows[i].amount + SumOfAmounts(rows, ids \ {i})

\* AccrualService.calculate_historical_average: the average amount of the
\* reconciled transactions of the category, of every period; None when there
\* are none or the average is 0.
calculate_historical_average(database, category) ==
    LET rows == database.transactions
        ids == {i \in DOMAIN rows : rows[i].category = category /\ rows[i].is_reconciled}
        result == SumOfAmounts(rows, ids) \div Cardinality(ids)
    IN IF ids = {} THEN [known |-> FALSE, value |-> 0]
       ELSE IF result = 0 THEN [known |-> FALSE, value |-> 0]
       ELSE [known |-> TRUE, value |-> result]

\* The query of post_*_accrual for an accrual that is not posted yet: it
\* never matches a row the service wrote.
existing_accrual_unposted(accruals, period, accrual_type) ==
    LET ids == {i \in DOMAIN accruals : /\ accruals[i].period = period
                                        /\ accruals[i].accrual_type = accrual_type
                                        /\ ~accruals[i].is_posted}
    IN IF ids = {} THEN 0 ELSE CHOOSE i \in ids : \A j \in ids : i <= j
\* The query post_*_accrual starts with: .first() of the accruals of the
\* period and type, 0 when there is none.
existing_accrual(accruals, period, accrual_type) ==
    LET ids == {i \in DOMAIN accruals : /\ accruals[i].period = period
                                        /\ accruals[i].accrual_type = accrual_type}
    IN IF ids = {} THEN 0 ELSE CHOOSE i \in ids : \A j \in ids : i <= j

\* The body post_payroll_accrual and post_utilities_accrual share: return the
\* existing accrual, or add one at the historical average of the category
\* when that is positive and at the default amount otherwise.
post_accrual(database, period, accrual_type, default_amount) ==
    LET existing == existing_accrual(database.accruals, period, accrual_type)
        historical_avg == calculate_historical_average(database, accrual_type)
        based_on_historical == historical_avg.known /\ historical_avg.value > 0
        accrual == [period |-> period,
                    accrual_type |-> accrual_type,
                    amount |-> IF based_on_historical THEN historical_avg.value
                               ELSE default_amount,
                    is_posted |-> TRUE,
                    based_on_historical |-> based_on_historical,
                    historical_average |-> historical_avg]
    IN IF existing # 0
       THEN [database |-> database, accrual |-> database.accruals[existing]]
       ELSE [database |-> [database EXCEPT !.accruals = Append(@, accrual)],
             accrual |-> accrual]

AccrualService_post_payroll_accrual(database, period) ==
    post_accrual(database, period, "payroll", 50000)

AccrualService_post_utilities_accrual(database, period) ==
    post_accrual(database, period, "utilities", 1200)

\* ReconciliationService.auto_reconcile_transactions: every unreconciled
\* transaction of the period whose risk score is at most the threshold
\* becomes reconciled.
auto_reconcile_transactions(database, threshold, period) ==
    [database EXCEPT !.transactions =
        [i \in DOMAIN @ |->
            IF /\ ~@[i].is_reconciled
               /\ @[i].risk_score <= threshold
               /\ @[i].period = period
            THEN [@[i] EXCEPT !.is_reconciled = TRUE]
            ELSE @[i]]]

\* .first() of the reconciliation records of the period, 0 when there is none.
existing_record(database, period) ==
    LET ids == {i \in DOMAIN database.reconciliation_records :
                    database.reconciliation_records[i].period = period}
    IN IF ids = {} THEN 0 ELSE CHOOSE i \in ids : \A j \in ids : i <= j

\* ReconciliationService.get_reconciliation_status; the rate is in 1/100 of
\* a percent.
get_reconciliation_status(database, period) ==
    LET rows == database.transactions
        total_transactions == Cardinality({i \in DOMAIN rows : rows[i].period = period})
        reconciled_count ==
            Cardinality({i \in DOMAIN rows : rows[i].period = period /\ rows[i].is_reconciled})
        record == existing_record(database, period)
    IN [period |-> period,
        status |-> IF record # 0 THEN database.reconciliation_records[record].status
                   ELSE "pending",
        total_transactions |-> total_transactions,
        reconciled_count |-> reconciled_count,
        pending_count |-> total_transactions - reconciled_count,
        reconciliation_rate100 |->
            IF total_transactions > 0
            THEN RoundDiv(reconciled_count * 10000, total_transactions)
            ELSE 0,
        is_month_end_closed |->
            IF record # 0 THEN database.reconciliation_records[record].is_month_end_closed
            ELSE FALSE]

\* The check perform_month_end_close would make, did it look at the status
\* of the record instead of its month-end flag.
already_closed_by_status(database, period) ==
    LET record == existing_record(database, period)
    IN record # 0 /\ database.reconciliation_records[record].status = "closed"
\* The check perform_month_end_close makes before any step: a record of the
\* period exists and is marked month-end closed.
already_closed(database, period) ==
    LET record == existing_record(database, period)
    IN record # 0 /\ database.reconciliation_records[record].is_month_end_closed

\* The steps a close that ran them reports, without their timestamps.
workflow_steps_of(auto_reconcile, post_payroll, post_utilities) ==
    << [step |-> "initialize", status |-> "completed"],
       [step |-> "auto_reconciliation",
        status |-> IF auto_reconcile THEN "completed" ELSE "skipped"],
       [step |-> "payroll_accrual",
        status |-> IF post_payroll THEN "completed" ELSE "skipped"],
       [step |-> "utilities_accrual",
        status |-> IF post_utilities THEN "completed" ELSE "skipped"],
       [step |-> "reconciliation_summary", status |-> "completed"],
       [step |-> "financial_statements", status |-> "completed"] >>

\* Step 7 of perform_month_end_close and its return: the record of the period
\* is updated, or created when there is none, and committed.
month_end_record(database, period, reconciliation_status, workflow_steps) ==
    LET record == existing_record(database, period)
        stored == IF record # 0
                  THEN [database.reconciliation_records[record] EXCEPT
                            !.status = "completed",
                            !.total_transactions = reconciliation_status.total_transactions,
                            !.reconciled_count = reconciliation_status.reconciled_count,
                            !.pending_count = reconciliation_status.pending_count,
                            !.workflow_steps = workflow_steps]
                  ELSE [period |-> period,
                        status |-> "completed",
                        total_transactions |-> reconciliation_status.total_transactions,
                        reconciled_count |-> reconciliation_status.reconciled_count,
                        pending_count |-> reconciliation_status.pending_count,
                        is_month_end_closed |-> FALSE,
                        workflow_steps |-> workflow_steps,
                        requires_approval |-> TRUE]
    IN [database |->
            [database EXCEPT !.reconciliation_records =
                IF record # 0 THEN [@ EXCEPT ![record] = stored] ELSE Append(@, stored)],
        result |-> [period |-> period,
                    status |-> "completed",
                    is_month_end_closed |-> stored.is_month_end_closed,
                    reconciliation_summary |-> reconciliation_status,
                    requires_approval |-> TRUE]]

\* ReconciliationService.perform_month_end_close.
perform_month_end_close(database, period, auto_reconcile, reconciliation_threshold, post_payroll, post_utilities) ==
    IF already_closed(database, period)
    THEN [database |-> database,
          result |-> [period |-> period,
                      status |-> "already_closed",
                      is_month_end_closed |-> TRUE,
                      reconciliation_summary |-> get_reconciliation_status(database, period),
                      requires_approval |-> FALSE]]
    ELSE LET reconciled == IF auto_reconcile
                           THEN auto_reconcile_transactions(database,
                                                            reconciliation_threshold, period)
                           ELSE database
             with_payroll ==
                 IF post_payroll
                 THEN AccrualService_post_payroll_accrual(reconciled, period).database
                 ELSE reconciled
             with_utilities ==
                 IF post_utilities
                 THEN AccrualService_post_utilities_accrual(with_payroll, period).database
                 ELSE with_payroll
         IN month_end_record(with_utilities, period,
                             get_reconciliation_status(with_utilities, period),
                             workflow_steps_of(auto_reconcile, post_payroll, post_utilities))

PostPayrollAccrual ==
    /\ prog = "month_end_close"
    /\ \E period \in Periods :
         LET done == AccrualService_post_payroll_accrual(db, period)
         IN /\ call' = [fn |-> "post_payroll_accrual", period |-> period]
            /\ ret' = [status |-> "ok", accrual |-> done.accrual]
            /\ db' = done.database
    /\ UNCHANGED <<prog, app, rules, store>>

PostUtilitiesAccrual ==
    /\ prog = "month_end_close"
    /\ \E period \in Periods :
         LET done == AccrualService_post_utilities_accrual(db, period)
         IN /\ call' = [fn |-> "post_utilities_accrual", period |-> period]
            /\ ret' = [status |-> "ok", accrual |-> done.accrual]
            /\ db' = done.database
    /\ UNCHANGED <<prog, app, rules, store>>

\* A close request at the default threshold, with the three steps it can
\* switch off (auto_reconcile, post_payroll_accrual, post_utilities_accrual)
\* all on, the defaults, or all off.
PerformMonthEndClose ==
    /\ prog = "month_end_close"
    /\ \E period \in Periods, reconciliation_threshold \in {50},
          options \in {<<TRUE, TRUE, TRUE>>, <<FALSE, FALSE, FALSE>>} :
         LET auto_reconcile == options[1]
             post_payroll == options[2]
             post_utilities == options[3]
             done == perform_month_end_close(db, period, auto_reconcile,
                                             reconciliation_threshold,
                                             post_payroll, post_utilities)
         IN /\ call' = [fn |-> "perform_month_end_close", period |-> period,
                        auto_reconcile |-> auto_reconcile,
                        reconciliation_threshold |-> reconciliation_threshold,
                        post_payroll_accrual |-> post_payroll,
                        post_utilities_accrual |-> post_utilities]
            /\ ret' = [status |-> "ok", result |-> done.result]
            /\ db' = done.database
    /\ UNCHANGED <<prog, app, rules, store>>

\* The approval perform_month_end_close reports it is awaiting: whoever
\* reviews a completed close marks the record of the period month-end
\* closed.  No service of the repository writes the flag; the column and the
\* branch that reads it are what the code has of this step.
ApproveMonthEndClose ==
    /\ prog = "month_end_close"
    /\ \E period \in Periods :
         LET record == existing_record(db, period)
         IN /\ record # 0
            /\ db.reconciliation_records[record].status = "completed"
            /\ ~db.reconciliation_records[record].is_month_end_closed
            /\ db' = [db EXCEPT !.reconciliation_records[record].is_month_end_closed = TRUE]
    /\ UNCHANGED <<prog, call, ret, app, rules, store>>

\* TaxOptimizer.__init__: the optimizer keeps the TaxRules instance it is
\* given, whatever its fields hold, and builds the default one when given
\* none.  TaxRules is a dataclass without a __post_init__: any field values
\* construct.
TaxOptimizer_init(tax_rules) == IF tax_rules = NoneArg THEN TaxRules ELSE tax_rules

\* The schedules an optimizer is built with: none (the default), one whose
\* basic rate limit is below the personal allowance, one with a basic rate
\* of 120%, one whose corporation tax thresholds are equal.
TaxRulesArguments ==
    {NoneArg,
     [TaxRules EXCEPT !.basic_rate_limit = 10000 * 100],
     [TaxRules EXCEPT !.basic_rate = 120],
     [TaxRules EXCEPT !.corporation_main_threshold = 50000 * 100]}

\* ------------------------------------------------------------ specification
Programs ==
    {"calculators", "tax_optimizer", "uk_tax_computations",
     "uk_tax_calculator", "tax_optimization_engine", "tax_optimization", "app",
     "month_end_close"}

Init ==
    /\ prog \in Programs
    /\ call = [fn |-> "none"]
    /\ ret = [status |-> "none"]
    /\ rules \in IF prog = "tax_optimizer"
                 THEN {TaxOptimizer_init(tax_rules) : tax_rules \in TaxRulesArguments}
                 ELSE {TaxRules}
    /\ transactions = <<>>
    /\ user_business_transactions = [key \in Keys |-> <<>>]
    /\ computations = [key \in Keys |-> [status |-> "none"]]
    /\ optimizer = TaxOptimizationEngine
    /\ requests = [t \in Threads |-> Idle]
    /\ db = [transactions |-> LedgerTransactions, accruals |-> <<>>,
             reconciliation_records |-> <<>>]

Next ==
    \/ PAYECalculate
    \/ CorporateCalculate
    \/ CalculatePersonalAllowance
    \/ OptimizeSoleTrader
    \/ ImportTransactionsFromCsv
    \/ ComputeTaxFromTransactions
    \/ GetTransactions
    \/ CalculatePaye
    \/ CalculateDividendTax
    \/ CalculateCorporationTax
    \/ EngineOptimizeForDirector
    \/ EngineOptimizeForSoleTrader
    \/ EngineOptimizeForCompanyOwner
    \/ EngineOptimizeForLandlord
    \/ EngineComprehensiveTaxPlan
    \/ LegacyOptimizeForDirector
    \/ LegacyOptimizeForSoleTrader
    \/ LegacyOptimizeForCompanyOwner
    \/ LegacyOptimizeForLandlord
    \/ LegacyComprehensiveTaxPlan
    \/ OptimizerRequest
    \/ OptimizerValidate
    \/ OptimizerReadSelf
    \/ OptimizerReturn
    \/ OptimizerRespond
    \/ PostPayrollAccrual
    \/ PostUtilitiesAccrual
    \/ PerformMonthEndClose
    \/ ApproveMonthEndClose

Spec == Init /\ [][Next]_vars

\* ------------------------------------------------------------------ claims
PAYEReturned == call.fn = "PAYECalculator.calculate" /\ ret.status = "ok"
CorpReturned == call.fn = "CorporateTaxCalculator.calculate" /\ ret.status = "ok"
ComputeReturned ==
    call.fn = "UKTaxComputations.compute_tax_from_transactions" /\ ret.success
AllowanceReturned == call.fn = "TaxOptimizer.calculate_personal_allowance"

\* The formula of the corporation-tax claim, times 200 (0.19 = 38/200,
\* 0.25 = 50/200, 0.015 = 3/200), for a profit p and limits lower < upper.
MarginalFormula200(p, upper) == p * 50 - (upper - p) * 3
CorporationTaxFormula200(p, lower, upper) ==
    IF p <= lower THEN p * 38
    ELSE IF p >= upper THEN p * 50
    ELSE MarginalFormula200(p, upper)

\* C1 as stated: the corporation tax IS the three-regime formula, in
\* CorporateTaxCalculator.calculate and in compute_tax_from_transactions.
C1_Original ==
    /\ CorpReturned =>
         200 * ret.corporation_tax =
             CorporationTaxFormula200(ret.taxable_profit,
                 SMALL_PROFITS_THRESHOLD, MAIN_RATE_THRESHOLD)
    /\ (ComputeReturned /\ ret.taxable_profit > 0) =>
         ret.corporation_tax = CorporationTaxFormula200(ret.taxable_profit, 50000, 250000)

\* C1 amended: CorporateTaxCalculator.calculate rounds each product half-up to
\* pence, so its tax is the formula rounded half-up to pence in the small-profits
\* and main-rate regimes and less than one penny away from the formula under
\* marginal relief; compute_tax_from_transactions applies the formula unrounded
\* to a positive profit and charges 0 on a profit that is not positive.
C1_CorporationTaxFormula ==
    /\ CorpReturned =>
         LET p == ret.taxable_profit
             diff == 200 * ret.corporation_tax
                     - CorporationTaxFormula200(p, SMALL_PROFITS_THRESHOLD, MAIN_RATE_THRESHOLD)
         IN  IF p <= SMALL_PROFITS_THRESHOLD \/ p >= MAIN_RATE_THRESHOLD
             THEN -100 < diff /\ diff <= 100
             ELSE -200 < diff /\ diff < 200
    /\ ComputeReturned =>
         ret.corporation_tax =
             IF ret.taxable_profit > 0
             THEN CorporationTaxFormula200(ret.taxable_profit, 50000, 250000)
             ELSE 0

\* C1 witness: a profit under marginal relief whose tax is not the formula's value.
C1_Witness ==
    /\ CorpReturned
    /\ ret.taxable_profit > SMALL_PROFITS_THRESHOLD
    /\ ret.taxable_profit < MAIN_RATE_THRESHOLD
    /\ 200 * ret.corporation_tax #
           MarginalFormula200(ret.taxable_profit, MAIN_RATE_THRESHOLD)

Abs(x) == IF x < 0 THEN -x ELSE x

\* C2: corporation tax is continuous at both limits.  At the lower limit the
\* tax is lower_limit * small_rate and at the upper limit upper_limit * main_rate;
\* the marginal-relief formula takes the same values at the limits; and a profit
\* within the window of a limit is taxed within 0.265 per unit of distance (plus
\* one penny of rounding in the Decimal code) of the tax at the limit, with the
\* reported effective rate equal to the rate at the limit.
C2_ContinuousAtLimits ==
    /\ MarginalFormula200(50000, 250000) = 50000 * 38
    /\ MarginalFormula200(250000, 250000) = 250000 * 50
    /\ CorpReturned =>
         LET p == ret.taxable_profit
         IN  /\ p = SMALL_PROFITS_THRESHOLD =>
                  100 * ret.corporation_tax = SMALL_PROFITS_THRESHOLD * SMALL_PROFITS_RATE
             /\ p = MAIN_RATE_THRESHOLD =>
                  100 * ret.corporation_tax = MAIN_RATE_THRESHOLD * MAIN_RATE
             /\ \A limit \in {SMALL_PROFITS_THRESHOLD, MAIN_RATE_THRESHOLD} :
                  Abs(p - limit) <= Window =>
                    /\ 200 * Abs(ret.corporation_tax - Corp_corporation_tax(limit))
                           <= 53 * Abs(p - limit) + 200
                    /\ ret.effective_rate =
                           100 * (IF limit = SMALL_PROFITS_THRESHOLD
                                  THEN SMALL_PROFITS_RATE ELSE MAIN_RATE)
    /\ ComputeReturned =>
         LET p == ret.taxable_profit
         IN  /\ p = 50000 => ret.corporation_tax = 50000 * 38
             /\ p = 250000 => ret.corporation_tax = 250000 * 50
             /\ \A limit \in {50000, 250000} :
                  Abs(p - limit) <= 1 =>
                    Abs(ret.corporation_tax - ComputeCorporationTax(limit))
                        <= 53 * Abs(p - limit)

\* C2 witness: a profit one penny inside the marginal band at the lower limit.
C2_Witness ==
    /\ CorpReturned
    /\ ret.taxable_profit = SMALL_PROFITS_THRESHOLD + 1

\* C3 as stated: for any profits 0 < P1 <= P2 the effective rate tax/P of P1
\* is at most that of P2.
C3_Original ==
    (CorpReturned /\ ret.taxable_profit > 0) =>
        \A p1 \in GrossProfits :
            (0 < p1 /\ p1 <= ret.taxable_profit) =>
                FracLeq(Corp_corporation_tax(p1), p1,
                        ret.corporation_tax, ret.taxable_profit)

\* C3 amended: for taxable profits in whole pounds, 0 < P1 <= P2, the effective
\* rate tax/P of P1 is at most that of P2, across the three regimes.
C3_EffectiveRateMonotone ==
    (CorpReturned /\ ret.taxable_profit > 0 /\ ret.taxable_profit % 100 = 0) =>
        \A p1 \in WholePoundProfits :
            p1 <= ret.taxable_profit =>
                FracLeq(Corp_corporation_tax(p1), p1,
                        ret.corporation_tax, ret.taxable_profit)

\* C3 witness: a whole-pound profit in the marginal band, above whole-pound
\* profits of the small-profits regime and of the band.
C3_Witness ==
    /\ CorpReturned
    /\ ret.taxable_profit = MAIN_RATE_THRESHOLD - 100

\* C4: income tax is 0 on a gross income of 0 and on one equal to the personal
\* allowance (no band is taxed), and on the allowance plus one pound it is one
\* pound at the basic rate.
C4_IncomeTaxAtAllowance ==
    (PAYEReturned /\ call.deductions = 0) =>
        /\ call.gross_income \in {0, PAYE_PERSONAL_ALLOWANCE} =>
             /\ ret.total_tax = 0
             /\ ret.tax_breakdown =
                    [basic_rate |-> 0, higher_rate |-> 0, additional_rate |-> 0]
        /\ call.gross_income = PAYE_PERSONAL_ALLOWANCE + 100 =>
             100 * ret.total_tax = 100 * PAYE_BASIC_RATE

C4_Witness ==
    /\ PAYEReturned
    /\ call.deductions = 0
    /\ call.gross_income = PAYE_PERSONAL_ALLOWANCE + 100

\* C5: the amounts taxed in the basic, higher and additional bands sum to the
\* taxable base max(0, income - allowance used), at every income, tapered
\* allowance included.
C5_BandsSumToBase ==
    PAYEReturned =>
        ret.basic_taxable2 + ret.higher_taxable2 + ret.additional_taxable2
            = Max(0, 2 * (call.gross_income - call.deductions) - ret.personal_allowance2)

\* C5 witness: an income whose allowance is partly tapered and that is taxed in
\* two bands.
C5_Witness ==
    /\ PAYEReturned
    /\ ret.personal_allowance2 > 0
    /\ ret.personal_allowance2 < 2 * PAYE_PERSONAL_ALLOWANCE
    /\ ret.basic_taxable2 > 0
    /\ ret.higher_taxable2 > 0

\* C6: income tax never decreases when the gross income increases, deductions
\* being equal: every smaller valid income pays at most the tax of this one.
C6_IncomeTaxMonotone ==
    PAYEReturned =>
        \A a \in GrossIncomes :
            (a <= call.gross_income /\ PAYE_validate_inputs(a, call.deductions) = "") =>
                PAYE_calculate(a, call.deductions).total_tax <= ret.total_tax

\* C6 witness: an income inside the taper region whose higher-rate tax was
\* rounded to pence.
C6_Witness ==
    /\ PAYEReturned
    /\ ret.personal_allowance2 > 0
    /\ ret.personal_allowance2 < 2 * PAYE_PERSONAL_ALLOWANCE
    /\ (ret.higher_taxable2 * PAYE_HIGHER_RATE) % 200 # 0

\* C7: the personal allowance is the full allowance up to the taper threshold
\* and, above it, the full allowance less half the excess, floored at 0: it is
\* 0 from 125,140 upward and positive below.
TaperedAllowance2(adjusted_income, allowance, threshold) ==
    IF adjusted_income <= threshold THEN 2 * allowance
    ELSE IF adjusted_income - threshold >= 2 * allowance THEN 0
    ELSE 2 * allowance - (adjusted_income - threshold)

C7_PersonalAllowanceTaper ==
    /\ AllowanceReturned =>
         /\ ret.allowance2 = TaperedAllowance2(call.adjusted_income, 12570 * 100, 100000 * 100)
         /\ (ret.allowance2 = 0) <=> (call.adjusted_income >= 125140 * 100)
    /\ PAYEReturned =>
         /\ ret.personal_allowance2 =
                TaperedAllowance2(call.gross_income - call.deductions,
                                  12570 * 100, 100000 * 100)
         /\ (ret.personal_allowance2 = 0)
                <=> (call.gross_income - call.deductions >= 125140 * 100)

\* C7 witness: an adjusted income just below 125,140, whose allowance is almost
\* tapered away.
C7_Witness ==
    /\ AllowanceReturned
    /\ call.adjusted_income = 125140 * 100 - 1
    /\ ret.allowance2 = 1

\* ---- dividend allocation
DividendTaxReturned == call.fn = "calculate_dividend_tax" /\ ret.status = "ok"
DirectorReturned ==
    /\ prog \in {"tax_optimization_engine", "tax_optimization"}
    /\ call.fn = "optimize_for_director"
    /\ ret.status = "ok"

\* The allocation law on one result of calculate_dividend_tax for the given
\* gross dividends.
AllocationLaw(result, dividends) ==
    /\ result.taxable_dividends = Max(0, dividends - 500 * 100)
    /\ result.basic_rate_amount2 + result.higher_rate_amount2
       + result.additional_rate_amount2 = 2 * Max(0, dividends - 500 * 100)
    /\ result.basic_rate_amount2 >= 0
    /\ result.higher_rate_amount2 >= 0
    /\ result.additional_rate_amount2 >= 0

\* C8: for any other_income and dividends, the three band allocations of the
\* dividend tax engine sum exactly to max(0, dividends - dividend allowance)
\* and each of them is at least 0; this holds of a direct call and of the two
\* dividend calculations a director optimization makes.
C8_DividendAllocationLaw ==
    /\ DividendTaxReturned => AllocationLaw(ret, call.dividends)
    /\ DirectorReturned =>
         /\ AllocationLaw(ret.detailed_calculations.dividend_tax, call.kwargs.dividends.val)
         /\ AllocationLaw(ret.detailed_calculations.optimal_dividend_tax,
                          ret.optimal_position.dividends)

\* Dividends that other income has pushed out of the basic band and that
\* spill over the higher band into the additional band.
C8_Witness ==
    /\ DividendTaxReturned
    /\ call.other_income > 50270 * 100
    /\ ret.basic_rate_amount2 = 0
    /\ ret.higher_rate_amount2 > 0
    /\ ret.additional_rate_amount2 > 0

\* ---- rejection of invalid input
ValidationFailures == {"ValidationError", "ValueError"}
MonetaryFields ==
    {"salary", "dividends", "company_profit", "pension_contribution",
     "trading_income", "allowable_expenses", "capital_allowances",
     "r_and_d_expenditure", "capital_investment",
     "rental_income", "mortgage_interest", "other_expenses"}
\* The optimizer a call goes to, and the parameters of it that have no default.
Optimizer ==
    CASE call.fn = "comprehensive_tax_plan" -> call.user_type
      [] call.fn = "optimize_for_director" -> "director"
      [] call.fn = "optimize_for_sole_trader" -> "sole_trader"
      [] call.fn = "optimize_for_company_owner" -> "company_owner"
      [] call.fn = "optimize_for_landlord" -> "landlord"
PositionalFields(user_type) ==
    CASE user_type = "director" -> {"salary", "dividends", "company_profit"}
      [] user_type = "sole_trader" -> {"trading_income", "allowable_expenses"}
      [] user_type = "company_owner" -> {"company_profit", "salary", "dividends"}
      [] user_type = "landlord" -> {"rental_income", "mortgage_interest", "other_expenses"}
      [] OTHER -> {}
\* The call supplies every parameter that has no default, and one of the
\* amounts it supplies is negative.
NegativeKwarg ==
    /\ \A f \in PositionalFields(Optimizer) : call.kwargs[f].kind # "missing"
    /\ \E f \in MonetaryFields \cap DOMAIN call.kwargs :
         call.kwargs[f].kind = "num" /\ call.kwargs[f].val < 0

\* The last call was an engine or optimizer entry point and one of its
\* monetary arguments was negative.
NegativeMonetaryArgument ==
    CASE call.fn = "PAYECalculator.calculate" ->
             call.gross_income < 0 \/ call.deductions < 0
      [] call.fn = "CorporateTaxCalculator.calculate" ->
             \/ call.gross_profit < 0 \/ call.allowable_expenses < 0
             \/ call.rd_expenditure < 0 \/ call.losses_brought_forward < 0
      [] call.fn = "TaxOptimizer.calculate_personal_allowance" -> call.adjusted_income < 0
      [] call.fn = "TaxOptimizer.optimize_sole_trader" -> call.income < 0 \/ call.expenses < 0
      [] call.fn = "calculate_paye" -> call.income < 0
      [] call.fn = "calculate_dividend_tax" -> call.dividends < 0 \/ call.other_income < 0
      [] call.fn = "calculate_corporation_tax" -> call.profit < 0
      [] call.fn \in {"optimize_for_director", "optimize_for_sole_trader",
                      "optimize_for_company_owner", "optimize_for_landlord",
                      "comprehensive_tax_plan"} -> NegativeKwarg
      [] OTHER -> FALSE

\* C9: every tax engine or optimizer entry point that is called with a
\* negative monetary argument raises a validation error; it returns no result.
C9_NegativeInputRejected ==
    NegativeMonetaryArgument => ret.status \in ValidationFailures

\* The fields section 6 of the specification requires of each archetype.
RequiredFields(user_type) ==
    CASE user_type = "director" -> {"salary", "dividends", "company_profit"}
      [] user_type = "sole_trader" -> {"trading_income"}
      [] user_type = "company_owner" -> {"company_profit", "salary", "dividends"}
      [] user_type = "landlord" -> {"rental_income"}
      [] OTHER -> {}
RequiredFieldMissing ==
    \E f \in RequiredFields(call.user_type) : call.kwargs[f].kind \in {"missing", "none"}

\* C10: comprehensive_tax_plan with an unknown user type or without a
\* required field raises a validation error; it never returns a result, an
\* error-valued result or a default.
C10_UnknownOrIncompleteRejected ==
    (/\ call.fn = "comprehensive_tax_plan"
     /\ call.user_type \notin valid_types \/ RequiredFieldMissing)
    => ret.status \in ValidationFailures

\* ---- director: saving and scenario A
\* C11: the saving the director optimizer reports equals the reported current
\* total tax minus the reported optimal total tax as a signed value: it is
\* negative when the optimal candidate's total tax is higher, never clamped.
C11_SavingIsSignedDifference ==
    DirectorReturned =>
        /\ ret.potential_saving
           = ret.current_position.total_tax - ret.optimal_position.total_tax
        /\ ret.optimal_position.total_tax > ret.current_position.total_tax
           => ret.potential_saving < 0

\* A director for whom the heuristic is worse than the current position.
C11_Witness ==
    /\ DirectorReturned
    /\ ret.optimal_position.total_tax > ret.current_position.total_tax
    /\ ret.potential_saving < 0

\* Scenario A: salary 30,000, dividends 20,000, company profit 60,000 and no
\* pension contribution (passed as 0 or left out).
ScenarioA ==
    /\ DirectorReturned
    /\ call.kwargs.salary = Num(30000 * 100)
    /\ call.kwargs.dividends = Num(20000 * 100)
    /\ call.kwargs.company_profit = Num(60000 * 100)
    /\ call.kwargs.pension_contribution \in {Num(0), Missing}

\* C12: in scenario A the optimal position's total tax is at most the current
\* position's total tax.
C12_ScenarioAOptimalNotWorse ==
    ScenarioA => ret.optimal_position.total_tax <= ret.current_position.total_tax

\* Scenario A answered by tax_optimization_engine.py, with a saving.
C12_Witness ==
    /\ ScenarioA
    /\ prog = "tax_optimization_engine"
    /\ ret.optimal_position.salary = 12570 * 100
    /\ ret.potential_saving > 0

\* ---- sole trader: trading allowance
SoleTraderCalled ==
    /\ prog \in {"tax_optimization_engine", "tax_optimization"}
    /\ call.fn = "optimize_for_sole_trader"
SoleTraderReturned == SoleTraderCalled /\ ret.status = "ok"

\* Scenario B: trading income 800 and zero expenses, nothing else passed.
ScenarioB ==
    /\ SoleTraderCalled
    /\ call.kwargs.trading_income = Num(800 * 100)
    /\ call.kwargs.allowable_expenses = Num(0)
    /\ call.kwargs.pension_contribution = Missing
    /\ call.kwargs.capital_allowances = Missing

\* C13: in scenario B the optimizer selects the trading-allowance method and
\* reports a taxable profit of 0.
C13_ScenarioBTaxableProfitZero ==
    ScenarioB =>
        /\ ret.status = "ok"
        /\ ret.income_analysis.method_used = "Trading Allowance"
        /\ ret.income_analysis.taxable_profit = 0

\* C14: the sole-trader optimizer uses the trading-allowance method only when
\* expenses and capital allowances are zero and trading income is at or below
\* the allowance threshold; in every other case it uses itemized expenses.
C14_AllowanceOnlyWithoutExpenses ==
    (SoleTraderReturned /\ ret.income_analysis.method_used = "Trading Allowance") =>
        /\ ret.income_analysis.allowable_expenses = 0
        /\ ret.income_analysis.capital_allowances = 0
        /\ ret.income_analysis.trading_income <= 1000 * 100

\* C15: whenever the trading-allowance method is selected, the taxable profit
\* it gives is no higher than the expense-based taxable profit (income -
\* expenses - capital allowances) it rejected.
C15_AllowanceNotWorseThanExpenses ==
    (SoleTraderReturned /\ ret.income_analysis.method_used = "Trading Allowance") =>
        ret.income_analysis.taxable_profit
        <= ret.income_analysis.trading_income - ret.income_analysis.allowable_expenses
           - ret.income_analysis.capital_allowances

LandlordCalled ==
    /\ prog \in {"tax_optimization_engine", "tax_optimization"}
    /\ call.fn = "optimize_for_landlord"
LandlordReturned == LandlordCalled /\ ret.status = "ok"

\* Scenario C: rental income 2000, no mortgage interest, no other expenses,
\* nothing else passed.
ScenarioC ==
    /\ LandlordCalled
    /\ call.kwargs.rental_income = Num(2000 * 100)
    /\ call.kwargs.mortgage_interest = Num(0)
    /\ call.kwargs.other_expenses = Num(0)
    /\ call.kwargs.is_furnished = Missing
    /\ call.kwargs.number_of_properties = Missing

\* C16: in scenario C the optimizer uses the property allowance (method
\* 'Property Allowance') and reports a taxable income of 1000.
C16_ScenarioCUsesPropertyAllowance ==
    ScenarioC =>
        /\ ret.status = "ok"
        /\ ret.tax_calculation.use_property_allowance
        /\ ret.tax_calculation.method_used = "Property Allowance"
        /\ ret.tax_calculation.taxable_income = 1000 * 100

\* A landlord result computed by the expense method.
ExpenseMethod == LandlordReturned /\ ~ret.tax_calculation.use_property_allowance

\* C17: under the expense method the taxable income is max(0, rental income -
\* other expenses), whatever the mortgage interest, and the tax reported is
\* the income tax on it less 20% of the mortgage interest, not below zero,
\* plus the national insurance.
C17_MortgageInterestReducesTaxOnly ==
    ExpenseMethod =>
        LET details == ret.property_details
            taxable == Max(0, details.rental_income - details.other_expenses)
            due == UKTax_calculate_paye(taxable)
            reduced100 == Max(0, due.income_tax * 100 - 20 * details.mortgage_interest)
        IN  /\ ret.tax_calculation.taxable_income = taxable
            /\ ret.tax_calculation.finance_cost_relief
                   = RoundDiv(20 * details.mortgage_interest, 100)
            /\ ret.tax_calculation.income_tax
                   = RoundDiv(reduced100 + due.employee_ni * 100, 100)
            /\ ret.tax_calculation.income_tax >= due.employee_ni

\* The relief exceeds the income tax and the tax is floored at zero.
C17_Witness ==
    /\ ExpenseMethod
    /\ ret.property_details.mortgage_interest = 1500 * 100
    /\ ret.property_details.rental_income = 2000 * 100
    /\ ret.tax_calculation.finance_cost_relief = 300 * 100
    /\ ret.tax_calculation.income_tax = 0

IncorporationListed ==
    \E i \in DOMAIN ret.recommendations : ret.recommendations[i] = "Consider Incorporation"

\* C18: incorporation is recommended only when the saving exceeds 1000 and
\* there are at least 3 properties, and the recommended flag is true exactly
\* when 'Consider Incorporation' is among the recommendations.
C18_IncorporationOnlyAboveBothThresholds ==
    LandlordReturned =>
        /\ ret.incorporation_analysis.recommended <=> IncorporationListed
        /\ ret.incorporation_analysis.recommended =>
               /\ ret.incorporation_analysis.potential_saving100 > 1000 * 100 * 100
               /\ ret.property_details.number_of_properties >= 3

C18_Witness ==
    /\ LandlordReturned
    /\ ret.incorporation_analysis.recommended
    /\ IncorporationListed

CompanyOwnerReturned ==
    /\ prog \in {"tax_optimization_engine", "tax_optimization"}
    /\ call.fn = "optimize_for_company_owner"
    /\ ret.status = "ok"

\* The director's optimal candidate: salary at the personal allowance, the
\* dividend pool is what corporation tax leaves of the profit after that
\* salary, and the optimal dividend tax is the tax on that pool.
DirectorOptimalCandidate ==
    LET remaining == call.kwargs.company_profit.val - TaxConstants_PERSONAL_ALLOWANCE
        pool == remaining - UKTax_calculate_corporation_tax(remaining).corporation_tax
    IN  /\ ret.optimal_position.salary = TaxConstants_PERSONAL_ALLOWANCE
        /\ ret.remaining_profit = remaining
        /\ ret.optimal_position.dividends = pool
        /\ ret.detailed_calculations.optimal_dividend_tax
               = UKTax_calculate_dividend_tax(pool, TaxConstants_PERSONAL_ALLOWANCE)

\* The company owner's optimal candidate: as the director's, with the R&D
\* and capital reliefs claimed taken off the remaining profit as well.
CompanyOwnerOptimalCandidate ==
    LET remaining == ret.company_analysis.profit - TaxConstants_PERSONAL_ALLOWANCE
                     - ret.reliefs_claimed.total_relief
        pool == remaining - UKTax_calculate_corporation_tax(remaining).corporation_tax
    IN  /\ ret.optimal_extraction.salary = TaxConstants_PERSONAL_ALLOWANCE
        /\ ret.optimal_extraction.remaining_profit = remaining
        /\ ret.optimal_extraction.maximum_dividend = pool
        /\ "optimal_dividend_tax" \in DOMAIN ret.optimal_extraction

\* C19: for the director and the company owner the optimal candidate pins the
\* salary at the personal allowance, its dividend pool is the remaining profit
\* (profit less that salary and any R&D or capital relief) less the
\* corporation tax on it, and the optimal dividend tax is computed on that
\* pool.
C19_OptimalCandidatePool ==
    /\ DirectorReturned => DirectorOptimalCandidate
    /\ CompanyOwnerReturned => CompanyOwnerOptimalCandidate

\* The corporation tax rate (in percent) that applies to a profit: the small
\* profits rate up to the lower limit, the main rate above it.
ApplicableCorporationTaxRate(profit) ==
    IF profit <= TaxConstants_CORPORATION_TAX_LOWER_LIMIT
    THEN TaxConstants_CORPORATION_TAX_SMALL_PROFITS_RATE
    ELSE TaxConstants_CORPORATION_TAX_MAIN_RATE

\* C20: the R&D relief a company owner is credited with is the expenditure
\* times (1 + the 130% enhancement rate) times the corporation tax rate that
\* applies to the company's profit.
C20_RAndDReliefAtApplicableRate ==
    (CompanyOwnerReturned /\ call.kwargs.r_and_d_expenditure.val > 0) =>
        ret.reliefs_claimed.r_and_d_relief
            = MulRate(call.kwargs.r_and_d_expenditure.val,
                      (10 + 13) * ApplicableCorporationTaxRate(ret.company_analysis.profit),
                      1000)

\* A landlord call that supplies the parameters without default and a
\* number_of_properties that is not a positive integer (the default is 1).
PropertyCountNotPositive ==
    /\ LandlordCalled
    /\ \A f \in PositionalFields("landlord") : call.kwargs[f].kind # "missing"
    /\ call.kwargs.number_of_properties.kind # "missing"
    /\ \/ call.kwargs.number_of_properties.kind # "num"
       \/ call.kwargs.number_of_properties.val < 1

\* C21: a landlord call whose number_of_properties is not a positive integer
\* is rejected with a validation error, and no tax calculation is returned.
C21_PropertyCountValidated ==
    PropertyCountNotPositive => ret.status \in ValidationFailures

\* A schedule is well formed when its thresholds are strictly increasing, its
\* rates (in percent) lie in [0, 1] and the lower corporation tax limit is
\* below the upper one.
WellFormedSchedule(r) ==
    /\ r.personal_allowance < r.basic_rate_limit
    /\ r.basic_rate_limit < r.higher_rate_limit
    /\ r.basic_rate \in 0..100
    /\ r.corporation_small_threshold < r.corporation_main_threshold

\* C22: a malformed schedule fails at construction, so no optimizer ever
\* computes on one: whenever an optimizer call has returned, the schedule the
\* optimizer was built with is well formed.
C22_MalformedScheduleNeverUsed ==
    (prog = "tax_optimizer" /\ ret.status = "ok") => WellFormedSchedule(rules)

\* The calls that compute: every entry point but the CSV import, whose
\* purpose is to add to the store.
ComputingCalls ==
    {"PAYECalculator.calculate", "CorporateTaxCalculator.calculate",
     "TaxOptimizer.calculate_personal_allowance", "TaxOptimizer.optimize_sole_trader",
     "UKTaxComputations.compute_tax_from_transactions",
     "UKTaxComputations.get_transactions",
     "calculate_paye", "calculate_dividend_tax", "calculate_corporation_tax",
     "optimize_for_director", "optimize_for_sole_trader", "optimize_for_company_owner",
     "optimize_for_landlord", "comprehensive_tax_plan"}

\* C23: a computing call changes neither the schedule nor any stored state,
\* and a call that repeats the previous call on the same inputs returns the
\* same output.
C23_CallsArePure ==
    [][call'.fn \in ComputingCalls =>
           /\ UNCHANGED <<rules, transactions, user_business_transactions, computations>>
           /\ call' = call => ret' = ret]_vars

CorporateWellFormed ==
    /\ call.fn = "CorporateTaxCalculator.calculate"
    /\ call.gross_profit >= 0 /\ call.allowable_expenses >= 0
    /\ call.rd_expenditure >= 0 /\ call.losses_brought_forward >= 0

\* C25: no call raises an arithmetic error, and the corporation tax
\* calculation on non-negative arguments returns a result whose effective
\* rate is 0 when the taxable profit is 0.
C25_NoArithmeticError ==
    /\ ret.status # "ArithmeticError"
    /\ CorporateWellFormed =>
           /\ ret.status = "ok"
           /\ ret.taxable_profit = 0 => ret.effective_rate = 0

\* A calculation whose taxable profit is 0 because the losses brought forward
\* exceed the profit.
C25_Witness ==
    /\ CorporateWellFormed
    /\ call.losses_brought_forward > call.gross_profit
    /\ ret.status = "ok"
    /\ ret.taxable_profit = 0
    /\ ret.effective_rate = 0

\* The rows imported for a pair, in the order of import: every imported row
\* is appended to the log with the ids it was imported under.
RowsImportedFor(user_id, business_id) ==
    SelectSeq(transactions,
              LAMBDA tx : tx.user_id = user_id /\ tx.business_id = business_id)

\* The last call asked for the transactions of one pair.
TransactionsOfPair ==
    /\ call.fn = "UKTaxComputations.get_transactions"
    /\ call.user_id # None /\ call.business_id # None

\* The last call computed the tax of one pair.
TaxOfPair == call.fn = "UKTaxComputations.compute_tax_from_transactions"

\* C26: the transactions returned for a pair are exactly the rows imported
\* for that pair, and the tax computed for a pair is computed from exactly
\* those rows, whatever was imported for other pairs.
C26_PairIsolation ==
    /\ TransactionsOfPair =>
           ret.transactions = RowsImportedFor(call.user_id, call.business_id)
    /\ TaxOfPair =>
           LET rows == RowsImportedFor(call.user_id, call.business_id)
           IN  IF rows = <<>> THEN ~ret.success
               ELSE /\ ret.success
                    /\ ret.transaction_count = Len(rows)
                    /\ ret.total_income = SumIf(rows, 1)
                    /\ ret.total_expenses = -SumIf(rows, -1)
                    /\ ret.income_transactions \o ret.expense_transactions
                           = SelectSeq(rows, LAMBDA tx : tx.amount > 0)
                             \o SelectSeq(rows, LAMBDA tx : tx.amount < 0)

\* The last call was a method of tax_optimization_engine.py and its
\* arguments passed the validation block.
PassedValidation ==
    /\ prog = "tax_optimization_engine"
    /\ call.fn \in {"optimize_for_director", "optimize_for_sole_trader",
                    "optimize_for_company_owner", "optimize_for_landlord"}
    /\ ret.status \notin {"TypeError", "ValueError"}

\* C27: on arguments that pass validation the optimizer hands no negative
\* amount to a calculator (which would reject it), and the remaining profit,
\* the dividend pool and the taxable profit it reports are not negative.
C27_NoNegativeAmounts ==
    PassedValidation =>
        /\ ret.status = "ok"
        /\ call.fn = "optimize_for_director" =>
               ret.remaining_profit >= 0 /\ ret.optimal_position.dividends >= 0
        /\ call.fn = "optimize_for_company_owner" =>
               /\ ret.optimal_extraction.remaining_profit >= 0
               /\ ret.optimal_extraction.maximum_dividend >= 0
        /\ call.fn = "optimize_for_sole_trader" =>
               ret.income_analysis.taxable_profit >= 0
        /\ call.fn = "optimize_for_landlord" =>
               ret.tax_calculation.taxable_income >= 0

\* A corporation tax was computed: by CorporateTaxCalculator.calculate on
\* non-negative arguments, or by compute_tax_from_transactions.
CorporateComputed == CorporateWellFormed /\ ret.status = "ok"
TransactionsComputed == TaxOfPair /\ ret.success

\* C28 as stated: the corporation tax is never negative and never exceeds the
\* taxable profit, and the taxable profit is floored at 0.
C28_Original ==
    /\ CorporateComputed =>
           /\ ret.taxable_profit >= 0
           /\ ret.corporation_tax >= 0
           /\ ret.corporation_tax <= ret.taxable_profit
    /\ TransactionsComputed =>
           /\ ret.taxable_profit >= 0
           /\ ret.corporation_tax >= 0
           /\ ret.corporation_tax <= ret.taxable_profit * 200

\* C28 amended: the corporation tax is never negative and never exceeds the
\* taxable profit floored at 0 (so it is 0 on a loss).
\* CorporateTaxCalculator.calculate floors the taxable profit it reports at
\* 0; compute_tax_from_transactions reports a loss as a negative taxable
\* profit.
C28_TaxWithinFlooredProfit ==
    /\ CorporateComputed =>
           /\ ret.taxable_profit >= 0
           /\ ret.corporation_tax >= 0
           /\ ret.corporation_tax <= ret.taxable_profit
    /\ TransactionsComputed =>
           /\ ret.corporation_tax >= 0
           /\ ret.corporation_tax <= Max(0, ret.taxable_profit) * 200

\* A computation from transactions whose expenses exceed the income.
C28_Witness ==
    /\ TransactionsComputed
    /\ ret.taxable_profit < 0
    /\ ret.total_expenses > ret.total_income
    /\ ret.corporation_tax = 0

AccrualTypes == {"payroll", "utilities"}

AccrualsIn(database, period, accrual_type) ==
    {i \in DOMAIN database.accruals : /\ database.accruals[i].period = period
                                      /\ database.accruals[i].accrual_type = accrual_type}

AccrualsOf(period, accrual_type) == AccrualsIn(db, period, accrual_type)

PostingOf(c, period, accrual_type) ==
    /\ c.fn = IF accrual_type = "payroll" THEN "post_payroll_accrual"
              ELSE "post_utilities_accrual"
    /\ c.period = period

MonthEndClosed(period) ==
    \E i \in DOMAIN db.reconciliation_records :
        /\ db.reconciliation_records[i].period = period
        /\ db.reconciliation_records[i].is_month_end_closed

\* C30: once the reconciliation record of a period is marked month-end
\* closed, every perform_month_end_close for that period returns the status
\* 'already_closed' and leaves every table as it was: no transaction is
\* reconciled, no accrual is posted and the record is not modified.
C30_ClosedPeriodIsNotClosedAgain ==
    [][PerformMonthEndClose /\ MonthEndClosed(call'.period) =>
           /\ ret'.result.status = "already_closed"
           /\ UNCHANGED db]_vars

\* A close of a closed period that asked for reconciliation and both
\* accruals while the period had an unreconciled low-risk transaction and no
\* payroll accrual.
C30_Witness ==
    /\ prog = "month_end_close"
    /\ call.fn = "perform_month_end_close"
    /\ call.auto_reconcile /\ call.post_payroll_accrual
    /\ MonthEndClosed(call.period)
    /\ ret.result.status = "already_closed"
    /\ AccrualsOf(call.period, "payroll") = {}
    /\ \E i \in DOMAIN db.transactions :
           /\ db.transactions[i].period = call.period
           /\ ~db.transactions[i].is_reconciled
           /\ db.transactions[i].risk_score <= call.reconciliation_threshold

====
